---- MODULE Spec2Model ----
(***************************************************************************)
(* Grammar scoring from voice samples: the scoring core (app/scoring.py).  *)
(*                                                                         *)
(* The scoring functions are pure.  The state is the frame of the call in  *)
(* progress: which function was called (fn), with which arguments (args)   *)
(* and what it returned (ret).  One action per function draws the          *)
(* arguments from bounded sets and applies the function; Return discards   *)
(* the frame, so nothing is carried from one call to the next.             *)
(*                                                                         *)
(* Python floats are IEEE 754 doubles, computed bit for bit (see below);    *)
(* Optional[float] None is the empty tuple.  A str is the sequence of its  *)
(* characters, each the number of its code point (U+0000 to U+10FFFF).     *)
(***************************************************************************)
EXTENDS Integers, Sequences, FiniteSets, TLC

VARIABLES fn, args, ret,
          pc, locals, calls, response, whisper_model, language_tool, served,
          tmp_file, loads, suspended

vars == <<fn, args, ret,
          pc, locals, calls, response, whisper_model, language_tool, served,
          tmp_file, loads, suspended>>

\* The state of the /score request handler and of the module caches.
pipevars ==
    <<pc, locals, calls, response, whisper_model, language_tool, served,
      tmp_file, loads, suspended>>

(***************************************************************************)
(* Python floats: IEEE 754 binary64, round to nearest, ties to even.       *)
(*                                                                         *)
(* A float is <<s, m, e>>: sign s (1 or -1), mantissa m, exponent e, of    *)
(* value s * m * 2^e.  The mantissa is a natural number of 53 bits written *)
(* as its limbs in base 2^15, least significant first; zero has the empty  *)
(* mantissa and e = 0, so every float has one form.  Optional[float] None  *)
(* is the empty tuple.  Infinities, NaN and subnormal numbers are outside  *)
(* the values the program computes.                                        *)
(***************************************************************************)
Base == 32768
LimbBits == 15
MantissaBits == 53

Abs(n) == IF n < 0 THEN -n ELSE n

Limb(a, i) == IF 1 <= i /\ i <= Len(a) THEN a[i] ELSE 0

\* Leading zero limbs removed.
RECURSIVE BNorm(_)
BNorm(a) ==
    IF a = <<>> THEN a
    ELSE IF a[Len(a)] = 0 THEN BNorm(SubSeq(a, 1, Len(a) - 1))
    ELSE a

\* The natural number n < 2^31 as limbs.
BFromInt(n) ==
    BNorm(<<n % Base, (n \div Base) % Base, n \div (Base * Base)>>)

\* The number of bits of a: 0 for 0.
BBitLen(a) ==
    IF a = <<>> THEN 0
    ELSE LimbBits * (Len(a) - 1)
             + (CHOOSE k \in 1 .. LimbBits : 2^(k - 1) <= a[Len(a)] /\ a[Len(a)] < 2^k)

\* a * 2^k rounded down, k of either sign: limb j of the result starts at bit
\* LimbBits * (j - 1) - k of a.
BShift(a, k) ==
    BNorm(<<>> \o [j \in 1 .. ((LimbBits * Len(a) + k) \div LimbBits + 1) |->
        LET p == LimbBits * (j - 1) - k
            i == p \div LimbBits
            r == p % LimbBits
        IN  (Limb(a, i + 1) \div 2^r) + (Limb(a, i + 2) % 2^r) * 2^(LimbBits - r)])

\* -1, 0 or 1 as a is below, equal to or above b.
BCmp(a, b) ==
    LET RECURSIVE From(_)
        From(i) == IF i = 0 THEN 0
                   ELSE IF a[i] < b[i] THEN -1
                   ELSE IF a[i] > b[i] THEN 1
                   ELSE From(i - 1)
    IN  IF Len(a) < Len(b) THEN -1
        ELSE IF Len(a) > Len(b) THEN 1
        ELSE From(Len(a))

BAdd(a, b) ==
    LET RECURSIVE From(_, _)
        From(i, carry) ==
            IF i > Len(a) /\ i > Len(b)
            THEN IF carry = 0 THEN <<>> ELSE <<carry>>
            ELSE <<(Limb(a, i) + Limb(b, i) + carry) % Base>>
                     \o From(i + 1, (Limb(a, i) + Limb(b, i) + carry) \div Base)
    IN  From(1, 0)

\* a - b for a >= b.
BSub(a, b) ==
    LET RECURSIVE From(_, _)
        From(i, borrow) ==
            IF i > Len(a) THEN <<>>
            ELSE <<(a[i] - Limb(b, i) - borrow) % Base>>
                     \o From(i + 1, IF a[i] - Limb(b, i) - borrow < 0 THEN 1 ELSE 0)
    IN  BNorm(From(1, 0))

\* a * k for a limb k.
BMulLimb(a, k) ==
    LET RECURSIVE From(_, _)
        From(i, carry) ==
            IF i > Len(a) THEN IF carry = 0 THEN <<>> ELSE <<carry>>
            ELSE <<(a[i] * k + carry) % Base>> \o From(i + 1, (a[i] * k + carry) \div Base)
    IN  IF k = 0 THEN <<>> ELSE From(1, 0)

RECURSIVE BMul(_, _)
BMul(a, b) ==
    IF a = <<>> \/ b = <<>> THEN <<>>
    ELSE BAdd(BMulLimb(a, b[1]), BNorm(<<0>> \o BMul(a, Tail(b))))

\* The next quotient digit: cur \div b for b with the top bit of its top limb
\* set and cur < b * Base.  The estimate from the leading limbs is at most 2
\* too high.
QuotientDigit(cur, b) ==
    LET n == Len(b)
        guess == (Limb(cur, n + 1) * Base + Limb(cur, n)) \div b[n]
        est == IF guess > Base - 1 THEN Base - 1 ELSE guess
        Fit(p) == IF BCmp(p, cur) <= 0 THEN est
                  ELSE IF BCmp(BSub(p, b), cur) <= 0 THEN est - 1
                  ELSE est - 2
    IN  Fit(BMulLimb(b, est))

\* Long division of a by b from limb i down, r being the remainder of the
\* limbs above: <<quotient, remainder>>.
RECURSIVE BLongDivFrom(_, _, _, _)
BLongDivFrom(a, b, i, r) ==
    LET cur == BNorm(<<a[i]>> \o r)
        Below(digit, qr) == <<qr[1] \o <<digit>>, qr[2]>>
        Step(digit) ==
            Below(digit, BLongDivFrom(a, b, i - 1, BSub(cur, BMulLimb(b, digit))))
    IN  IF i = 0 THEN <<<<>>, r>> ELSE Step(QuotientDigit(cur, b))

\* Quotient and remainder of a by b > 0: both are shifted so that the top bit
\* of the divisor's top limb is set.
BDivMod(a, b) ==
    LET s == LimbBits * Len(b) - BBitLen(b)
        Result(qr) == <<BNorm(qr[1]), BShift(qr[2], -s)>>
    IN  Result(BLongDivFrom(BShift(a, s), BShift(b, s), Len(BShift(a, s)), <<>>))

\* 10^k, four decimal digits to a step.
RECURSIVE BPow10(_)
BPow10(k) == IF k < 5 THEN <<10^k>> ELSE BMulLimb(BPow10(k - 4), 10000)

\* The float of sign s and value m * 2^e for a mantissa m of MantissaBits
\* bits or fewer, or of one more ending in 0.
Normal(s, m, e) ==
    IF m = <<>> THEN <<s, <<>>, 0>>
    ELSE <<s, BShift(m, MantissaBits - BBitLen(m)), e - (MantissaBits - BBitLen(m))>>

\* The integer nearest to (m + f) / 2^k for k > 0, where 0 <= f < 1 and f > 0
\* exactly if sticky; a tie goes to the even integer.  t is the quotient with
\* one more bit.
BNearestShift(m, k, sticky) ==
    LET Nearest(t) ==
            IF Limb(t, 1) % 2 = 1
                   /\ (sticky \/ Limb(t, 1) % 4 >= 2 \/ BShift(t, k - 1) # m)
            THEN BAdd(BShift(t, -1), <<1>>)
            ELSE BShift(t, -1)
    IN  Nearest(BShift(m, 1 - k))

\* The float nearest to s * (m + f) * 2^e, f as above.  With sticky, m has
\* more than MantissaBits + 1 bits.
RoundToFloat(s, m, e, sticky) ==
    IF BBitLen(m) <= MantissaBits THEN Normal(s, m, e)
    ELSE Normal(s, BNearestShift(m, BBitLen(m) - MantissaBits, sticky),
                e + BBitLen(m) - MantissaBits)

\* The float nearest to s * (n / d) * 2^e for naturals n and d > 0 (as
\* limbs): n is shifted to give a quotient of MantissaBits + 2 bits or more.
Quotient(s, n, d, e) ==
    LET need == MantissaBits + 2 + BBitLen(d) - BBitLen(n)
        k == IF need > 0 THEN need ELSE 0
        Nearest(qr) == RoundToFloat(s, qr[1], e - k, qr[2] # <<>>)
    IN  IF n = <<>> THEN <<s, <<>>, 0>> ELSE Nearest(BDivMod(BShift(n, k), d))

\* float(n) of an int n.
Float(n) == Normal(IF n < 0 THEN -1 ELSE 1, BFromInt(Abs(n)), 0)

\* The float n / d of two ints, d # 0: what the literal or the true division
\* n / d gives.
Rat(n, d) ==
    Quotient(IF (n < 0) = (d < 0) THEN 1 ELSE -1,
             BFromInt(Abs(n)), BFromInt(Abs(d)), 0)

None == <<>>

IsZero(x) == x[2] = <<>>

\* -1, 0 or 1 as x is below, equal to or above y; -0.0 equals 0.0.
Cmp(x, y) ==
    IF IsZero(x) /\ IsZero(y) THEN 0
    ELSE IF IsZero(x) THEN -y[1]
    ELSE IF IsZero(y) THEN x[1]
    ELSE IF x[1] # y[1] THEN x[1]
    ELSE IF x[3] < y[3] THEN -x[1]
    ELSE IF x[3] > y[3] THEN x[1]
    ELSE x[1] * BCmp(x[2], y[2])

Leq(x, y) == Cmp(x, y) <= 0
Lt(x, y) == Cmp(x, y) < 0

\* max(x, y) and min(x, y): the first argument unless the second is beyond it.
Max(x, y) == IF Lt(x, y) THEN y ELSE x
Min(x, y) == IF Lt(y, x) THEN y ELSE x

\* x + y: both mantissas at the lower exponent, added or subtracted, and
\* rounded.  0.0 unless both are -0.0 when the sum is zero.
Add(x, y) ==
    LET e == IF x[3] < y[3] THEN x[3] ELSE y[3]
        Sum(a, b) ==
            IF x[1] = y[1] THEN <<x[1], BAdd(a, b)>>
            ELSE IF BCmp(a, b) >= 0 THEN <<x[1], BSub(a, b)>>
            ELSE <<y[1], BSub(b, a)>>
        Nearest(sm) == IF sm[2] = <<>> THEN <<1, <<>>, 0>>
                       ELSE RoundToFloat(sm[1], sm[2], e, FALSE)
    IN  IF IsZero(x)
        THEN IF IsZero(y)
             THEN <<IF x[1] = -1 /\ y[1] = -1 THEN -1 ELSE 1, <<>>, 0>>
             ELSE y
        ELSE IF IsZero(y) THEN x
        ELSE Nearest(Sum(BShift(x[2], x[3] - e), BShift(y[2], y[3] - e)))

Sub(x, y) == Add(x, <<-y[1], y[2], y[3]>>)

Mul(x, y) == RoundToFloat(x[1] * y[1], BMul(x[2], y[2]), x[3] + y[3], FALSE)

\* x / y for y # 0.
Div(x, y) == Quotient(x[1] * y[1], x[2], y[2], x[3] - y[3])

\* The exception a division by zero raises; it ends the function that divides.
ZeroDivisionError == <<"ZeroDivisionError">>

\* Python's x / y.
TrueDiv(x, y) == IF IsZero(y) THEN ZeroDivisionError ELSE Div(x, y)

\* Python's round(x, ndigits) for ndigits >= 0: x is written with ndigits
\* decimals, correctly rounded (ties of the float's own value to even), and
\* the float nearest to that decimal is returned.
Round(x, ndigits) ==
    LET Decimal(n) == IF x[3] >= 0 THEN BShift(n, x[3])
                      ELSE BNearestShift(n, -x[3], FALSE)
    IN  IF IsZero(x) THEN x
        ELSE Quotient(x[1], Decimal(BMul(x[2], BPow10(ndigits))), BPow10(ndigits), 0)

(***************************************************************************)
(* str(x) of a float, as an f-string renders it: the shortest decimal that *)
(* reads back as x.                                                        *)
(***************************************************************************)
\* The code points of the printable ASCII characters, U+0020 to U+007E (the
\* grave accent U+0060 left out).
ord ==
    (" " :> 32) @@ ("!" :> 33) @@ ("\"" :> 34) @@ ("#" :> 35) @@
    ("$" :> 36) @@ ("%" :> 37) @@ ("&" :> 38) @@ ("'" :> 39) @@ ("(" :> 40) @@
    (")" :> 41) @@ ("*" :> 42) @@ ("+" :> 43) @@ ("," :> 44) @@ ("-" :> 45) @@
    ("." :> 46) @@ ("/" :> 47) @@ ("0" :> 48) @@ ("1" :> 49) @@ ("2" :> 50) @@
    ("3" :> 51) @@ ("4" :> 52) @@ ("5" :> 53) @@ ("6" :> 54) @@ ("7" :> 55) @@
    ("8" :> 56) @@ ("9" :> 57) @@ (":" :> 58) @@ (";" :> 59) @@ ("<" :> 60) @@
    ("=" :> 61) @@ (">" :> 62) @@ ("?" :> 63) @@ ("@" :> 64) @@ ("A" :> 65) @@
    ("B" :> 66) @@ ("C" :> 67) @@ ("D" :> 68) @@ ("E" :> 69) @@ ("F" :> 70) @@
    ("G" :> 71) @@ ("H" :> 72) @@ ("I" :> 73) @@ ("J" :> 74) @@ ("K" :> 75) @@
    ("L" :> 76) @@ ("M" :> 77) @@ ("N" :> 78) @@ ("O" :> 79) @@ ("P" :> 80) @@
    ("Q" :> 81) @@ ("R" :> 82) @@ ("S" :> 83) @@ ("T" :> 84) @@ ("U" :> 85) @@
    ("V" :> 86) @@ ("W" :> 87) @@ ("X" :> 88) @@ ("Y" :> 89) @@ ("Z" :> 90) @@
    ("[" :> 91) @@ ("\\" :> 92) @@ ("]" :> 93) @@ ("^" :> 94) @@
    ("_" :> 95) @@ ("a" :> 97) @@ ("b" :> 98) @@ ("c" :> 99) @@
    ("d" :> 100) @@ ("e" :> 101) @@ ("f" :> 102) @@ ("g" :> 103) @@
    ("h" :> 104) @@ ("i" :> 105) @@ ("j" :> 106) @@ ("k" :> 107) @@
    ("l" :> 108) @@ ("m" :> 109) @@ ("n" :> 110) @@ ("o" :> 111) @@
    ("p" :> 112) @@ ("q" :> 113) @@ ("r" :> 114) @@ ("s" :> 115) @@
    ("t" :> 116) @@ ("u" :> 117) @@ ("v" :> 118) @@ ("w" :> 119) @@
    ("x" :> 120) @@ ("y" :> 121) @@ ("z" :> 122) @@ ("{" :> 123) @@
    ("|" :> 124) @@ ("}" :> 125) @@ ("~" :> 126)

\* The str of the given printable ASCII characters.
RECURSIVE Str(_)
Str(chars) ==
    IF chars = <<>> THEN <<>> ELSE <<ord[Head(chars)]>> \o Str(Tail(chars))

DigitChars == Str(<<"0", "1", "2", "3", "4", "5", "6", "7", "8", "9">>)

\* The decimal digits of a natural number.
RECURSIVE IntDigits(_)
IntDigits(n) ==
    IF n < 10 THEN <<DigitChars[n + 1]>>
    ELSE IntDigits(n \div 10) \o <<DigitChars[(n % 10) + 1]>>

\* The decimal digits of a natural number given as limbs, four to a step;
\* none for 0.
RECURSIVE BDigits(_)
BDigits(a) ==
    LET Four(n) == <<DigitChars[n \div 1000 + 1], DigitChars[((n \div 100) % 10) + 1],
                     DigitChars[((n \div 10) % 10) + 1], DigitChars[(n % 10) + 1]>>
        Digits(qr) == IF qr[1] = <<>> THEN IntDigits(Limb(qr[2], 1))
                      ELSE BDigits(qr[1]) \o Four(Limb(qr[2], 1))
    IN  IF a = <<>> THEN <<>> ELSE Digits(BDivMod(a, <<10000>>))

\* <<floor(v), whether v is an integer>> for v = m * 2^e * 10^k, k of either
\* sign.
ScaledWhole(m, e, k) ==
    LET Shifted(n) == <<BShift(n, e), BShift(BShift(n, e), -e) = n>>
        Divided(qr) == <<qr[1], qr[2] = <<>>>>
    IN  IF k >= 0 THEN Shifted(BMul(m, BPow10(k)))
        ELSE Divided(BDivMod(BShift(m, e), BPow10(-k)))

\* Whether c4 lies within the given distances of x4, the ends included when
\* even.
Within(c4, x4, above, below, even) ==
    LET Near(cmp, d) == cmp = 0 \/ d < 0 \/ (d = 0 /\ even)
    IN  IF BCmp(c4, x4) >= 0
        THEN Near(BCmp(c4, x4), BCmp(BSub(c4, x4), above))
        ELSE Near(-1, BCmp(BSub(x4, c4), below))

\* Whether the decimal c * 10^k reads back as the float m * 2^e: it lies
\* within half a unit in the last place of the mantissa (a quarter below the
\* lowest mantissa), the ends included when the mantissa is even.  All sides
\* are scaled to integers by 2^a * 10^b.
ReadsBack(c, k, m, e) ==
    LET a == IF e < 2 THEN 2 - e ELSE 0
        b == IF k < 0 THEN -k ELSE 0
    IN  Within(BShift(BMul(c, BPow10(k + b)), a),
               BShift(BMul(m, BPow10(b)), e + a),
               BShift(BPow10(b), e + a - 1),
               BShift(BPow10(b),
                      IF BBitLen(BSub(m, <<1>>)) < MantissaBits
                      THEN e + a - 2 ELSE e + a - 1),
               m[1] % 2 = 0)

\* Of the decimals lo * 10^k and hi * 10^k on either side of m * 2^e, hi =
\* lo + 1, the one that reads back, the nearer one when both do; <<>> when
\* neither does.  side is -1, 0 or 1 as the value is below, at or above their
\* middle.
NearestOf(lo, hi, k, m, e, side) ==
    LET Pick(okLo, okHi) ==
            IF okLo /\ okHi
            THEN IF side < 0 \/ (side = 0 /\ Limb(lo, 1) % 2 = 0) THEN lo ELSE hi
            ELSE IF okLo THEN lo
            ELSE IF okHi THEN hi
            ELSE <<>>
    IN  Pick(ReadsBack(lo, k, m, e), ReadsBack(hi, k, m, e))

\* The shortest digits: <<c, k>> with c * 10^k reading back as m * 2^e and c
\* of n digits or more, n as small as possible, c as near as possible.
\* whole is ScaledWhole(m, e, s), of len digits with len > 17.
RECURSIVE ShortestFrom(_, _, _, _, _, _)
ShortestFrom(m, e, s, whole, len, n) ==
    LET j == len - n
        Side(cmp) == IF cmp = 0 /\ ~whole[2] THEN 1 ELSE cmp
        Found(c) == IF c # <<>> THEN <<c, j - s>>
                    ELSE ShortestFrom(m, e, s, whole, len, n + 1)
        Split(qr) == Found(NearestOf(qr[1], BAdd(qr[1], <<1>>), j - s, m, e,
                                     Side(BCmp(BShift(qr[2], 1), BPow10(j)))))
    IN  Split(BDivMod(whole[1], BPow10(j)))

\* The digits times 10^k, zeros at the end dropped: fixed notation for -4 < point <= 16, exponent notation
\* otherwise.
Notation(all, k) ==
    LET point == Len(all) + k
        RECURSIVE StripZeros(_)
        StripZeros(d) == IF Len(d) > 1 /\ d[Len(d)] = ord["0"]
                         THEN StripZeros(SubSeq(d, 1, Len(d) - 1)) ELSE d
        Zeros(n) == [i \in 1 .. n |-> ord["0"]]
        Placed(digits, n) ==
            IF -4 < point /\ point <= 16
            THEN IF point <= 0 THEN Str(<<"0", ".">>) \o Zeros(-point) \o digits
                 ELSE IF point >= n THEN digits \o Zeros(point - n) \o Str(<<".", "0">>)
                 ELSE SubSeq(digits, 1, point) \o Str(<<".">>) \o SubSeq(digits, point + 1, n)
            ELSE <<digits[1]>>
                     \o (IF n > 1 THEN Str(<<".">>) \o SubSeq(digits, 2, n) ELSE <<>>)
                     \o Str(<<"e", IF point < 1 THEN "-" ELSE "+">>)
                     \o (IF Abs(point - 1) < 10 THEN Str(<<"0">>) ELSE <<>>)
                     \o IntDigits(Abs(point - 1))
    IN  Placed(StripZeros(all), Len(StripZeros(all)))

\* repr of the positive float m * 2^e.  The value is first written with 18
\* digits or more: scaled by 10^s, s from the number of bits before the
\* binary point (30103 / 100000 is log10 of 2).
ReprPositive(m, e) ==
    LET s == 17 - ((MantissaBits + e - 1) * 30103) \div 100000
        Written(ck) == Notation(BDigits(ck[1]), ck[2])
        Scaled(whole) ==
            Written(ShortestFrom(m, e, s, whole,
                CHOOSE len \in 17 .. 21 : /\ BCmp(whole[1], BPow10(len - 1)) >= 0
                                          /\ BCmp(whole[1], BPow10(len)) < 0, 1))
    IN  Scaled(ScaledWhole(m, e, s))

FloatStr(x) ==
    (IF x[1] < 0 THEN Str(<<"-">>) ELSE <<>>)
        \o (IF IsZero(x) THEN Str(<<"0", ".", "0">>) ELSE ReprPositive(x[2], x[3]))

(***************************************************************************)
(* Thresholds and weights.                                                 *)
(***************************************************************************)
MAX_GRAMMAR_ERRORS_PER_100 == 12
MAX_FILLERS_PER_100 == 8
MAX_WER == Rat(35, 100)
IDEAL_WPM_MIN == 110
IDEAL_WPM_MAX == 170
VERY_SLOW_WPM == 60
VERY_FAST_WPM == 220
WEIGHT_GRAMMAR == Rat(35, 100)
\* Variant: the filler weight taken for the WER weight.
WEIGHT_FILLERS_as_wer == Rat(20, 100)

WEIGHT_FILLERS == Rat(25, 100)
\* Variant: the WER weight raised without lowering another.
WEIGHT_WER_raised == Rat(25, 100)

WEIGHT_WER == Rat(20, 100)
WEIGHT_FLUENCY == Rat(20, 100)

(***************************************************************************)
(* The scoring functions.                                                  *)
(***************************************************************************)
\* Variant: only the upper limit is applied.
clamp_01_upper_only(x) == Min(Float(1), x)

\* Variant: an out-of-range value is rejected as 0.0 instead of saturating.
clamp_01_reject(x) ==
    IF Lt(x, Float(0)) \/ Lt(Float(1), x) THEN Float(0) ELSE x

clamp_01(x) == Max(Float(0), Min(Float(1), x))

\* Variant: the rate is smoothed by one extra word in the denominator.
normalize_grammar_errors_smoothed(error_count, word_count) ==
    IF word_count <= 0 THEN Float(0)
    ELSE LET ger == Mul(Div(Float(error_count), Float(word_count + 1)), Float(100))
             penalty == Div(ger, Float(MAX_GRAMMAR_ERRORS_PER_100))
         IN  clamp_01(penalty)

\* Variant: only a negative word count is treated as an empty transcript.
normalize_grammar_errors_zero_unguarded(error_count, word_count) ==
    IF word_count < 0 THEN Float(0)
    ELSE LET rate == TrueDiv(Float(error_count), Float(word_count))
         IN  IF rate = ZeroDivisionError THEN rate
             ELSE clamp_01(Div(Mul(rate, Float(100)),
                               Float(MAX_GRAMMAR_ERRORS_PER_100)))

normalize_grammar_errors(error_count, word_count) ==
    IF word_count <= 0 THEN Float(0)
    ELSE LET rate == TrueDiv(Float(error_count), Float(word_count))
         IN  IF rate = ZeroDivisionError THEN rate
             ELSE LET ger == Mul(rate, Float(100))
                      penalty == Div(ger, Float(MAX_GRAMMAR_ERRORS_PER_100))
                  IN  clamp_01(penalty)

\* Variant: the grammar threshold is used for fillers.
normalize_fillers_grammar_threshold(filler_count, word_count) ==
    IF word_count <= 0 THEN Float(0)
    ELSE LET filler_rate == Mul(Div(Float(filler_count), Float(word_count)), Float(100))
             penalty == Div(filler_rate, Float(MAX_GRAMMAR_ERRORS_PER_100))
         IN  clamp_01(penalty)

normalize_fillers(filler_count, word_count) ==
    IF word_count <= 0 THEN Float(0)
    ELSE LET rate == TrueDiv(Float(filler_count), Float(word_count))
         IN  IF rate = ZeroDivisionError THEN rate
             ELSE LET filler_rate == Mul(rate, Float(100))
                      penalty == Div(filler_rate, Float(MAX_FILLERS_PER_100))
                  IN  clamp_01(penalty)

\* Variant: the final clamp is missing.
normalize_wer_unclamped(wer) ==
    IF wer = None THEN Float(0)
    ELSE IF Lt(wer, Float(0)) THEN Float(0)
    ELSE Div(wer, MAX_WER)

normalize_wer(wer) ==
    IF wer = None THEN Float(0)
    ELSE IF Lt(wer, Float(0)) THEN Float(0)
    ELSE clamp_01(Div(wer, MAX_WER))

\* Variant: the ramps are divided by the outer limits, not by the ramp widths.
fluency_penalty_wrong_span(wpm) ==
    IF wpm = None THEN Float(0)
    ELSE IF Leq(wpm, Float(0)) THEN Float(0)
    ELSE IF Leq(Float(IDEAL_WPM_MIN), wpm) /\ Leq(wpm, Float(IDEAL_WPM_MAX)) THEN Float(0)
    ELSE IF Lt(wpm, Float(IDEAL_WPM_MIN))
         THEN clamp_01(Div(Sub(Float(IDEAL_WPM_MIN), wpm), Float(VERY_SLOW_WPM)))
    ELSE clamp_01(Div(Sub(wpm, Float(IDEAL_WPM_MAX)), Float(VERY_FAST_WPM)))

\* Variant: the ramps are not clamped.
fluency_penalty_unclamped(wpm) ==
    IF wpm = None THEN Float(0)
    ELSE IF Leq(wpm, Float(0)) THEN Float(0)
    ELSE IF Leq(Float(IDEAL_WPM_MIN), wpm) /\ Leq(wpm, Float(IDEAL_WPM_MAX)) THEN Float(0)
    ELSE IF Lt(wpm, Float(IDEAL_WPM_MIN))
         THEN Div(Sub(Float(IDEAL_WPM_MIN), wpm), Float(IDEAL_WPM_MIN - VERY_SLOW_WPM))
    ELSE Div(Sub(wpm, Float(IDEAL_WPM_MAX)), Float(VERY_FAST_WPM - IDEAL_WPM_MAX))

fluency_penalty(wpm) ==
    IF wpm = None THEN Float(0)
    ELSE IF Leq(wpm, Float(0)) THEN Float(0)
    ELSE IF Leq(Float(IDEAL_WPM_MIN), wpm) /\ Leq(wpm, Float(IDEAL_WPM_MAX)) THEN Float(0)
    ELSE IF Lt(wpm, Float(IDEAL_WPM_MIN))
         THEN LET distance == Sub(Float(IDEAL_WPM_MIN), wpm)
                  max_distance == Float(IDEAL_WPM_MIN - VERY_SLOW_WPM)
              IN  clamp_01(Div(distance, max_distance))
    ELSE IF Lt(Float(IDEAL_WPM_MAX), wpm)
         THEN LET distance == Sub(wpm, Float(IDEAL_WPM_MAX))
                  max_distance == Float(VERY_FAST_WPM - IDEAL_WPM_MAX)
              IN  clamp_01(Div(distance, max_distance))
    ELSE Float(0)

\* The weighted sum of the four penalties, as calculate_final_score forms it.
WeightedPenalty(grammar_penalty, filler_penalty, wer_penalty, fluency_pen) ==
    Add(Add(Add(Mul(grammar_penalty, WEIGHT_GRAMMAR),
                Mul(filler_penalty, WEIGHT_FILLERS)),
            Mul(wer_penalty, WEIGHT_WER)),
        Mul(fluency_pen, WEIGHT_FLUENCY))

\* Variant: the score is not clamped to [0, 100].
calculate_final_score_unclamped(grammar_penalty, filler_penalty, wer_penalty, fluency_pen) ==
    Round(Sub(Float(100),
              Mul(WeightedPenalty(grammar_penalty, filler_penalty,
                                  wer_penalty, fluency_pen), Float(100))), 2)

\* Variant: the score is not rounded.
calculate_final_score_unrounded(grammar_penalty, filler_penalty, wer_penalty, fluency_pen) ==
    Max(Float(0), Min(Float(100),
        Sub(Float(100),
            Mul(WeightedPenalty(grammar_penalty, filler_penalty,
                                wer_penalty, fluency_pen), Float(100)))))

\* Variant: each penalty is clamped to [0, 1] before it is weighted.
calculate_final_score_clamped_inputs(grammar_penalty, filler_penalty, wer_penalty, fluency_pen) ==
    Round(Max(Float(0), Min(Float(100),
        Sub(Float(100),
            Mul(WeightedPenalty(clamp_01(grammar_penalty), clamp_01(filler_penalty),
                                clamp_01(wer_penalty), clamp_01(fluency_pen)),
                Float(100))))), 2)

calculate_final_score(grammar_penalty, filler_penalty, wer_penalty, fluency_pen) ==
    LET total_penalty ==
            WeightedPenalty(grammar_penalty, filler_penalty, wer_penalty, fluency_pen)
        score == Sub(Float(100), Mul(total_penalty, Float(100)))
        clamped == Max(Float(0), Min(Float(100), score))
    IN  Round(clamped, 2)

(***************************************************************************)
(* The explanation string.                                                 *)
(***************************************************************************)

\* The f-string of generate_score_explanation for the given numbers.
ExplanationText(final, grammar_deduction, filler_deduction, wer_deduction, fluency_deduction) ==
    Str(<<"S", "c", "o", "r", "e", ":", " ">>)
        \o FloatStr(final)
        \o Str(<<"/", "1", "0", "0", " ", "|", " ", "G", "r", "a", "m", "m", "a", "r", ":", " ", "-">>)
        \o FloatStr(grammar_deduction)
        \o Str(<<" ", "p", "t", "s", " ", "|", " ", "F", "i", "l", "l", "e", "r", "s", ":", " ", "-">>)
        \o FloatStr(filler_deduction)
        \o Str(<<" ", "p", "t", "s", " ", "|", " ", "W", "E", "R", ":", " ", "-">>)
        \o FloatStr(wer_deduction)
        \o Str(<<" ", "p", "t", "s", " ", "|", " ", "F", "l", "u", "e", "n", "c", "y", ":", " ", "-">>)
        \o FloatStr(fluency_deduction)
        \o Str(<<" ", "p", "t", "s">>)

\* Variant: the deductions are rounded to 2 decimals like the score.
generate_score_explanation_two_decimals(grammar_penalty, filler_penalty, wer_penalty, fluency_pen, final) ==
    ExplanationText(final,
        Round(Mul(Mul(grammar_penalty, WEIGHT_GRAMMAR), Float(100)), 2),
        Round(Mul(Mul(filler_penalty, WEIGHT_FILLERS), Float(100)), 2),
        Round(Mul(Mul(wer_penalty, WEIGHT_WER), Float(100)), 2),
        Round(Mul(Mul(fluency_pen, WEIGHT_FLUENCY), Float(100)), 2))

generate_score_explanation(grammar_penalty, filler_penalty, wer_penalty, fluency_pen, final) ==
    LET grammar_deduction ==
            Round(Mul(Mul(grammar_penalty, WEIGHT_GRAMMAR), Float(100)), 1)
        filler_deduction ==
            Round(Mul(Mul(filler_penalty, WEIGHT_FILLERS), Float(100)), 1)
        wer_deduction ==
            Round(Mul(Mul(wer_penalty, WEIGHT_WER), Float(100)), 1)
        fluency_deduction ==
            Round(Mul(Mul(fluency_pen, WEIGHT_FLUENCY), Float(100)), 1)
    IN  ExplanationText(final, grammar_deduction, filler_deduction,
                        wer_deduction, fluency_deduction)

(***************************************************************************)
(* Text features (app/text_features.py).  The character classes are those  *)
(* of the Unicode character database of the interpreter (Python 3.11,      *)
(* Unicode 14.0).                                                          *)
(***************************************************************************)
\* The whitespace of Python: what the regular expression class \s matches and
\* str.strip() and str.split() take for a blank (U+0009-000D, U+001C-0020,
\* U+0085, U+00A0, U+1680, U+2000-200A, U+2028, U+2029, U+202F, U+205F,
\* U+3000).
IsSpace(c) ==
    c \in (9 .. 13) \cup (28 .. 32) \cup {133, 160, 5760} \cup (8192 .. 8202)
              \cup {8232, 8233, 8239, 8287, 12288}

\* The characters of the class [.,!?;:].
IsPunct(c) == c \in {ord[p] : p \in {".", ",", "!", "?", ";", ":"}}

\* The last index of the whitespace run that starts at index i.
RECURSIVE RunEnd(_, _)
RunEnd(text, i) ==
    IF i < Len(text) /\ IsSpace(text[i + 1]) THEN RunEnd(text, i + 1) ELSE i

\* re.sub(r'\s+', ' ', text), scanning from index i.
RECURSIVE SubWhitespaceFrom(_, _)
SubWhitespaceFrom(text, i) ==
    IF i > Len(text) THEN <<>>
    ELSE IF IsSpace(text[i])
         THEN <<ord[" "]>> \o SubWhitespaceFrom(text, RunEnd(text, i) + 1)
    ELSE <<text[i]>> \o SubWhitespaceFrom(text, i + 1)

\* re.sub(r'\s+([.,!?;:])', r'\1', text), scanning from index i: a whitespace
\* run is dropped when a punctuation mark of the class follows it.
RECURSIVE SubSpaceBeforePunctFrom(_, _)
SubSpaceBeforePunctFrom(text, i) ==
    IF i > Len(text) THEN <<>>
    ELSE IF IsSpace(text[i])
         THEN LET j == RunEnd(text, i)
              IN  IF j < Len(text) /\ IsPunct(text[j + 1])
                  THEN <<text[j + 1]>> \o SubSpaceBeforePunctFrom(text, j + 2)
                  ELSE <<text[i]>> \o SubSpaceBeforePunctFrom(text, i + 1)
    ELSE <<text[i]>> \o SubSpaceBeforePunctFrom(text, i + 1)

\* str.strip()
RECURSIVE strip(_)
strip(text) ==
    IF text = <<>> THEN <<>>
    ELSE IF IsSpace(text[1]) THEN strip(Tail(text))
    ELSE IF IsSpace(text[Len(text)]) THEN strip(SubSeq(text, 1, Len(text) - 1))
    ELSE text

\* Variant: the result is not stripped.
normalize_transcript_unstripped(text) ==
    IF text = <<>> THEN <<>>
    ELSE SubSpaceBeforePunctFrom(SubWhitespaceFrom(text, 1), 1)

\* Variant: the replacement of the punctuation pass lacks the group reference,
\* so the punctuation mark is dropped with the whitespace before it.
RECURSIVE DropSpaceAndPunctFrom(_, _)
DropSpaceAndPunctFrom(text, i) ==
    IF i > Len(text) THEN <<>>
    ELSE IF IsSpace(text[i])
         THEN LET j == RunEnd(text, i)
              IN  IF j < Len(text) /\ IsPunct(text[j + 1])
                  THEN DropSpaceAndPunctFrom(text, j + 2)
                  ELSE <<text[i]>> \o DropSpaceAndPunctFrom(text, i + 1)
    ELSE <<text[i]>> \o DropSpaceAndPunctFrom(text, i + 1)

normalize_transcript_drops_punct(text) ==
    IF text = <<>> THEN <<>>
    ELSE strip(DropSpaceAndPunctFrom(SubWhitespaceFrom(text, 1), 1))

normalize_transcript(text) ==
    IF text = <<>> THEN <<>>
    ELSE strip(SubSpaceBeforePunctFrom(SubWhitespaceFrom(text, 1), 1))

(***************************************************************************)
(* Filler detection.                                                       *)
(***************************************************************************)
\* The regular expressions of filler_patterns, in list order.  Each is
\* \b<lit>\b, or \b<lit>+\b with the + on the last character when plus holds.
filler_patterns ==
    <<
        [lit |-> Str(<<"y", "o", "u", " ", "k", "n", "o", "w">>), plus |-> FALSE],
        [lit |-> Str(<<"i", " ", "m", "e", "a", "n">>), plus |-> FALSE],
        [lit |-> Str(<<"k", "i", "n", "d", " ", "o", "f">>), plus |-> FALSE],
        [lit |-> Str(<<"k", "i", "n", "d", "a">>), plus |-> FALSE],
        [lit |-> Str(<<"s", "o", "r", "t", " ", "o", "f">>), plus |-> FALSE],
        [lit |-> Str(<<"s", "o", "r", "t", "a">>), plus |-> FALSE],
        [lit |-> Str(<<"y", "o", "u", " ", "s", "e", "e">>), plus |-> FALSE],
        [lit |-> Str(<<"l", "e", "t", " ", "m", "e", " ", "s", "e", "e">>), plus |-> FALSE],
        [lit |-> Str(<<"l", "e", "t", "'", "s", " ", "s", "e", "e">>), plus |-> FALSE],
        [lit |-> Str(<<"u", "m">>), plus |-> TRUE],
        [lit |-> Str(<<"u", "h">>), plus |-> TRUE],
        [lit |-> Str(<<"e", "r", "m">>), plus |-> TRUE],
        [lit |-> Str(<<"h", "m", "m">>), plus |-> TRUE],
        [lit |-> Str(<<"a", "h">>), plus |-> TRUE],
        [lit |-> Str(<<"o", "h">>), plus |-> TRUE],
        [lit |-> Str(<<"l", "i", "k", "e">>), plus |-> FALSE],
        [lit |-> Str(<<"b", "a", "s", "i", "c", "a", "l", "l", "y">>), plus |-> FALSE],
        [lit |-> Str(<<"a", "c", "t", "u", "a", "l", "l", "y">>), plus |-> FALSE],
        [lit |-> Str(<<"l", "i", "t", "e", "r", "a", "l", "l", "y">>), plus |-> FALSE],
        [lit |-> Str(<<"w", "e", "l", "l">>), plus |-> FALSE],
        [lit |-> Str(<<"s", "o">>), plus |-> FALSE],
        [lit |-> Str(<<"j", "u", "s", "t">>), plus |-> FALSE]
    >>

\* The character database, as ranges <<first, last>> of code points in
\* ascending order: alnum, the characters str.isalnum() holds for (letters
\* and every kind of digit and number); cased and case_ignorable, the
\* characters with these properties; lowercase, the characters with a
\* lower-case mapping as <<first, last, step, offset>>: every step-th
\* character from first to last maps to the character offset after it.
UnicodeData ==
    [alnum |-> <<
        <<48, 57>>, <<65, 90>>, <<97, 122>>, <<170, 170>>, <<178, 179>>,
        <<181, 181>>, <<185, 186>>, <<188, 190>>, <<192, 214>>, <<216, 246>>,
        <<248, 705>>, <<710, 721>>, <<736, 740>>, <<748, 748>>, <<750, 750>>,
        <<880, 884>>, <<886, 887>>, <<890, 893>>, <<895, 895>>, <<902, 902>>,
        <<904, 906>>, <<908, 908>>, <<910, 929>>, <<931, 1013>>,
        <<1015, 1153>>, <<1162, 1327>>, <<1329, 1366>>, <<1369, 1369>>,
        <<1376, 1416>>, <<1488, 1514>>, <<1519, 1522>>, <<1568, 1610>>,
        <<1632, 1641>>, <<1646, 1647>>, <<1649, 1747>>, <<1749, 1749>>,
        <<1765, 1766>>, <<1774, 1788>>, <<1791, 1791>>, <<1808, 1808>>,
        <<1810, 1839>>, <<1869, 1957>>, <<1969, 1969>>, <<1984, 2026>>,
        <<2036, 2037>>, <<2042, 2042>>, <<2048, 2069>>, <<2074, 2074>>,
        <<2084, 2084>>, <<2088, 2088>>, <<2112, 2136>>, <<2144, 2154>>,
        <<2160, 2183>>, <<2185, 2190>>, <<2208, 2249>>, <<2308, 2361>>,
        <<2365, 2365>>, <<2384, 2384>>, <<2392, 2401>>, <<2406, 2415>>,
        <<2417, 2432>>, <<2437, 2444>>, <<2447, 2448>>, <<2451, 2472>>,
        <<2474, 2480>>, <<2482, 2482>>, <<2486, 2489>>, <<2493, 2493>>,
        <<2510, 2510>>, <<2524, 2525>>, <<2527, 2529>>, <<2534, 2545>>,
        <<2548, 2553>>, <<2556, 2556>>, <<2565, 2570>>, <<2575, 2576>>,
        <<2579, 2600>>, <<2602, 2608>>, <<2610, 2611>>, <<2613, 2614>>,
        <<2616, 2617>>, <<2649, 2652>>, <<2654, 2654>>, <<2662, 2671>>,
        <<2674, 2676>>, <<2693, 2701>>, <<2703, 2705>>, <<2707, 2728>>,
        <<2730, 2736>>, <<2738, 2739>>, <<2741, 2745>>, <<2749, 2749>>,
        <<2768, 2768>>, <<2784, 2785>>, <<2790, 2799>>, <<2809, 2809>>,
        <<2821, 2828>>, <<2831, 2832>>, <<2835, 2856>>, <<2858, 2864>>,
        <<2866, 2867>>, <<2869, 2873>>, <<2877, 2877>>, <<2908, 2909>>,
        <<2911, 2913>>, <<2918, 2927>>, <<2929, 2935>>, <<2947, 2947>>,
        <<2949, 2954>>, <<2958, 2960>>, <<2962, 2965>>, <<2969, 2970>>,
        <<2972, 2972>>, <<2974, 2975>>, <<2979, 2980>>, <<2984, 2986>>,
        <<2990, 3001>>, <<3024, 3024>>, <<3046, 3058>>, <<3077, 3084>>,
        <<3086, 3088>>, <<3090, 3112>>, <<3114, 3129>>, <<3133, 3133>>,
        <<3160, 3162>>, <<3165, 3165>>, <<3168, 3169>>, <<3174, 3183>>,
        <<3192, 3198>>, <<3200, 3200>>, <<3205, 3212>>, <<3214, 3216>>,
        <<3218, 3240>>, <<3242, 3251>>, <<3253, 3257>>, <<3261, 3261>>,
        <<3293, 3294>>, <<3296, 3297>>, <<3302, 3311>>, <<3313, 3314>>,
        <<3332, 3340>>, <<3342, 3344>>, <<3346, 3386>>, <<3389, 3389>>,
        <<3406, 3406>>, <<3412, 3414>>, <<3416, 3425>>, <<3430, 3448>>,
        <<3450, 3455>>, <<3461, 3478>>, <<3482, 3505>>, <<3507, 3515>>,
        <<3517, 3517>>, <<3520, 3526>>, <<3558, 3567>>, <<3585, 3632>>,
        <<3634, 3635>>, <<3648, 3654>>, <<3664, 3673>>, <<3713, 3714>>,
        <<3716, 3716>>, <<3718, 3722>>, <<3724, 3747>>, <<3749, 3749>>,
        <<3751, 3760>>, <<3762, 3763>>, <<3773, 3773>>, <<3776, 3780>>,
        <<3782, 3782>>, <<3792, 3801>>, <<3804, 3807>>, <<3840, 3840>>,
        <<3872, 3891>>, <<3904, 3911>>, <<3913, 3948>>, <<3976, 3980>>,
        <<4096, 4138>>, <<4159, 4169>>, <<4176, 4181>>, <<4186, 4189>>,
        <<4193, 4193>>, <<4197, 4198>>, <<4206, 4208>>, <<4213, 4225>>,
        <<4238, 4238>>, <<4240, 4249>>, <<4256, 4293>>, <<4295, 4295>>,
        <<4301, 4301>>, <<4304, 4346>>, <<4348, 4680>>, <<4682, 4685>>,
        <<4688, 4694>>, <<4696, 4696>>, <<4698, 4701>>, <<4704, 4744>>,
        <<4746, 4749>>, <<4752, 4784>>, <<4786, 4789>>, <<4792, 4798>>,
        <<4800, 4800>>, <<4802, 4805>>, <<4808, 4822>>, <<4824, 4880>>,
        <<4882, 4885>>, <<4888, 4954>>, <<4969, 4988>>, <<4992, 5007>>,
        <<5024, 5109>>, <<5112, 5117>>, <<5121, 5740>>, <<5743, 5759>>,
        <<5761, 5786>>, <<5792, 5866>>, <<5870, 5880>>, <<5888, 5905>>,
        <<5919, 5937>>, <<5952, 5969>>, <<5984, 5996>>, <<5998, 6000>>,
        <<6016, 6067>>, <<6103, 6103>>, <<6108, 6108>>, <<6112, 6121>>,
        <<6128, 6137>>, <<6160, 6169>>, <<6176, 6264>>, <<6272, 6276>>,
        <<6279, 6312>>, <<6314, 6314>>, <<6320, 6389>>, <<6400, 6430>>,
        <<6470, 6509>>, <<6512, 6516>>, <<6528, 6571>>, <<6576, 6601>>,
        <<6608, 6618>>, <<6656, 6678>>, <<6688, 6740>>, <<6784, 6793>>,
        <<6800, 6809>>, <<6823, 6823>>, <<6917, 6963>>, <<6981, 6988>>,
        <<6992, 7001>>, <<7043, 7072>>, <<7086, 7141>>, <<7168, 7203>>,
        <<7232, 7241>>, <<7245, 7293>>, <<7296, 7304>>, <<7312, 7354>>,
        <<7357, 7359>>, <<7401, 7404>>, <<7406, 7411>>, <<7413, 7414>>,
        <<7418, 7418>>, <<7424, 7615>>, <<7680, 7957>>, <<7960, 7965>>,
        <<7968, 8005>>, <<8008, 8013>>, <<8016, 8023>>, <<8025, 8025>>,
        <<8027, 8027>>, <<8029, 8029>>, <<8031, 8061>>, <<8064, 8116>>,
        <<8118, 8124>>, <<8126, 8126>>, <<8130, 8132>>, <<8134, 8140>>,
        <<8144, 8147>>, <<8150, 8155>>, <<8160, 8172>>, <<8178, 8180>>,
        <<8182, 8188>>, <<8304, 8305>>, <<8308, 8313>>, <<8319, 8329>>,
        <<8336, 8348>>, <<8450, 8450>>, <<8455, 8455>>, <<8458, 8467>>,
        <<8469, 8469>>, <<8473, 8477>>, <<8484, 8484>>, <<8486, 8486>>,
        <<8488, 8488>>, <<8490, 8493>>, <<8495, 8505>>, <<8508, 8511>>,
        <<8517, 8521>>, <<8526, 8526>>, <<8528, 8585>>, <<9312, 9371>>,
        <<9450, 9471>>, <<10102, 10131>>, <<11264, 11492>>, <<11499, 11502>>,
        <<11506, 11507>>, <<11517, 11517>>, <<11520, 11557>>,
        <<11559, 11559>>, <<11565, 11565>>, <<11568, 11623>>,
        <<11631, 11631>>, <<11648, 11670>>, <<11680, 11686>>,
        <<11688, 11694>>, <<11696, 11702>>, <<11704, 11710>>,
        <<11712, 11718>>, <<11720, 11726>>, <<11728, 11734>>,
        <<11736, 11742>>, <<11823, 11823>>, <<12293, 12295>>,
        <<12321, 12329>>, <<12337, 12341>>, <<12344, 12348>>,
        <<12353, 12438>>, <<12445, 12447>>, <<12449, 12538>>,
        <<12540, 12543>>, <<12549, 12591>>, <<12593, 12686>>,
        <<12690, 12693>>, <<12704, 12735>>, <<12784, 12799>>,
        <<12832, 12841>>, <<12872, 12879>>, <<12881, 12895>>,
        <<12928, 12937>>, <<12977, 12991>>, <<13312, 19903>>,
        <<19968, 42124>>, <<42192, 42237>>, <<42240, 42508>>,
        <<42512, 42539>>, <<42560, 42606>>, <<42623, 42653>>,
        <<42656, 42735>>, <<42775, 42783>>, <<42786, 42888>>,
        <<42891, 42954>>, <<42960, 42961>>, <<42963, 42963>>,
        <<42965, 42969>>, <<42994, 43009>>, <<43011, 43013>>,
        <<43015, 43018>>, <<43020, 43042>>, <<43056, 43061>>,
        <<43072, 43123>>, <<43138, 43187>>, <<43216, 43225>>,
        <<43250, 43255>>, <<43259, 43259>>, <<43261, 43262>>,
        <<43264, 43301>>, <<43312, 43334>>, <<43360, 43388>>,
        <<43396, 43442>>, <<43471, 43481>>, <<43488, 43492>>,
        <<43494, 43518>>, <<43520, 43560>>, <<43584, 43586>>,
        <<43588, 43595>>, <<43600, 43609>>, <<43616, 43638>>,
        <<43642, 43642>>, <<43646, 43695>>, <<43697, 43697>>,
        <<43701, 43702>>, <<43705, 43709>>, <<43712, 43712>>,
        <<43714, 43714>>, <<43739, 43741>>, <<43744, 43754>>,
        <<43762, 43764>>, <<43777, 43782>>, <<43785, 43790>>,
        <<43793, 43798>>, <<43808, 43814>>, <<43816, 43822>>,
        <<43824, 43866>>, <<43868, 43881>>, <<43888, 44002>>,
        <<44016, 44025>>, <<44032, 55203>>, <<55216, 55238>>,
        <<55243, 55291>>, <<63744, 64109>>, <<64112, 64217>>,
        <<64256, 64262>>, <<64275, 64279>>, <<64285, 64285>>,
        <<64287, 64296>>, <<64298, 64310>>, <<64312, 64316>>,
        <<64318, 64318>>, <<64320, 64321>>, <<64323, 64324>>,
        <<64326, 64433>>, <<64467, 64829>>, <<64848, 64911>>,
        <<64914, 64967>>, <<65008, 65019>>, <<65136, 65140>>,
        <<65142, 65276>>, <<65296, 65305>>, <<65313, 65338>>,
        <<65345, 65370>>, <<65382, 65470>>, <<65474, 65479>>,
        <<65482, 65487>>, <<65490, 65495>>, <<65498, 65500>>,
        <<65536, 65547>>, <<65549, 65574>>, <<65576, 65594>>,
        <<65596, 65597>>, <<65599, 65613>>, <<65616, 65629>>,
        <<65664, 65786>>, <<65799, 65843>>, <<65856, 65912>>,
        <<65930, 65931>>, <<66176, 66204>>, <<66208, 66256>>,
        <<66273, 66299>>, <<66304, 66339>>, <<66349, 66378>>,
        <<66384, 66421>>, <<66432, 66461>>, <<66464, 66499>>,
        <<66504, 66511>>, <<66513, 66517>>, <<66560, 66717>>,
        <<66720, 66729>>, <<66736, 66771>>, <<66776, 66811>>,
        <<66816, 66855>>, <<66864, 66915>>, <<66928, 66938>>,
        <<66940, 66954>>, <<66956, 66962>>, <<66964, 66965>>,
        <<66967, 66977>>, <<66979, 66993>>, <<66995, 67001>>,
        <<67003, 67004>>, <<67072, 67382>>, <<67392, 67413>>,
        <<67424, 67431>>, <<67456, 67461>>, <<67463, 67504>>,
        <<67506, 67514>>, <<67584, 67589>>, <<67592, 67592>>,
        <<67594, 67637>>, <<67639, 67640>>, <<67644, 67644>>,
        <<67647, 67669>>, <<67672, 67702>>, <<67705, 67742>>,
        <<67751, 67759>>, <<67808, 67826>>, <<67828, 67829>>,
        <<67835, 67867>>, <<67872, 67897>>, <<67968, 68023>>,
        <<68028, 68047>>, <<68050, 68096>>, <<68112, 68115>>,
        <<68117, 68119>>, <<68121, 68149>>, <<68160, 68168>>,
        <<68192, 68222>>, <<68224, 68255>>, <<68288, 68295>>,
        <<68297, 68324>>, <<68331, 68335>>, <<68352, 68405>>,
        <<68416, 68437>>, <<68440, 68466>>, <<68472, 68497>>,
        <<68521, 68527>>, <<68608, 68680>>, <<68736, 68786>>,
        <<68800, 68850>>, <<68858, 68899>>, <<68912, 68921>>,
        <<69216, 69246>>, <<69248, 69289>>, <<69296, 69297>>,
        <<69376, 69415>>, <<69424, 69445>>, <<69457, 69460>>,
        <<69488, 69505>>, <<69552, 69579>>, <<69600, 69622>>,
        <<69635, 69687>>, <<69714, 69743>>, <<69745, 69746>>,
        <<69749, 69749>>, <<69763, 69807>>, <<69840, 69864>>,
        <<69872, 69881>>, <<69891, 69926>>, <<69942, 69951>>,
        <<69956, 69956>>, <<69959, 69959>>, <<69968, 70002>>,
        <<70006, 70006>>, <<70019, 70066>>, <<70081, 70084>>,
        <<70096, 70106>>, <<70108, 70108>>, <<70113, 70132>>,
        <<70144, 70161>>, <<70163, 70187>>, <<70272, 70278>>,
        <<70280, 70280>>, <<70282, 70285>>, <<70287, 70301>>,
        <<70303, 70312>>, <<70320, 70366>>, <<70384, 70393>>,
        <<70405, 70412>>, <<70415, 70416>>, <<70419, 70440>>,
        <<70442, 70448>>, <<70450, 70451>>, <<70453, 70457>>,
        <<70461, 70461>>, <<70480, 70480>>, <<70493, 70497>>,
        <<70656, 70708>>, <<70727, 70730>>, <<70736, 70745>>,
        <<70751, 70753>>, <<70784, 70831>>, <<70852, 70853>>,
        <<70855, 70855>>, <<70864, 70873>>, <<71040, 71086>>,
        <<71128, 71131>>, <<71168, 71215>>, <<71236, 71236>>,
        <<71248, 71257>>, <<71296, 71338>>, <<71352, 71352>>,
        <<71360, 71369>>, <<71424, 71450>>, <<71472, 71483>>,
        <<71488, 71494>>, <<71680, 71723>>, <<71840, 71922>>,
        <<71935, 71942>>, <<71945, 71945>>, <<71948, 71955>>,
        <<71957, 71958>>, <<71960, 71983>>, <<71999, 71999>>,
        <<72001, 72001>>, <<72016, 72025>>, <<72096, 72103>>,
        <<72106, 72144>>, <<72161, 72161>>, <<72163, 72163>>,
        <<72192, 72192>>, <<72203, 72242>>, <<72250, 72250>>,
        <<72272, 72272>>, <<72284, 72329>>, <<72349, 72349>>,
        <<72368, 72440>>, <<72704, 72712>>, <<72714, 72750>>,
        <<72768, 72768>>, <<72784, 72812>>, <<72818, 72847>>,
        <<72960, 72966>>, <<72968, 72969>>, <<72971, 73008>>,
        <<73030, 73030>>, <<73040, 73049>>, <<73056, 73061>>,
        <<73063, 73064>>, <<73066, 73097>>, <<73112, 73112>>,
        <<73120, 73129>>, <<73440, 73458>>, <<73648, 73648>>,
        <<73664, 73684>>, <<73728, 74649>>, <<74752, 74862>>,
        <<74880, 75075>>, <<77712, 77808>>, <<77824, 78894>>,
        <<82944, 83526>>, <<92160, 92728>>, <<92736, 92766>>,
        <<92768, 92777>>, <<92784, 92862>>, <<92864, 92873>>,
        <<92880, 92909>>, <<92928, 92975>>, <<92992, 92995>>,
        <<93008, 93017>>, <<93019, 93025>>, <<93027, 93047>>,
        <<93053, 93071>>, <<93760, 93846>>, <<93952, 94026>>,
        <<94032, 94032>>, <<94099, 94111>>, <<94176, 94177>>,
        <<94179, 94179>>, <<94208, 100343>>, <<100352, 101589>>,
        <<101632, 101640>>, <<110576, 110579>>, <<110581, 110587>>,
        <<110589, 110590>>, <<110592, 110882>>, <<110928, 110930>>,
        <<110948, 110951>>, <<110960, 111355>>, <<113664, 113770>>,
        <<113776, 113788>>, <<113792, 113800>>, <<113808, 113817>>,
        <<119520, 119539>>, <<119648, 119672>>, <<119808, 119892>>,
        <<119894, 119964>>, <<119966, 119967>>, <<119970, 119970>>,
        <<119973, 119974>>, <<119977, 119980>>, <<119982, 119993>>,
        <<119995, 119995>>, <<119997, 120003>>, <<120005, 120069>>,
        <<120071, 120074>>, <<120077, 120084>>, <<120086, 120092>>,
        <<120094, 120121>>, <<120123, 120126>>, <<120128, 120132>>,
        <<120134, 120134>>, <<120138, 120144>>, <<120146, 120485>>,
        <<120488, 120512>>, <<120514, 120538>>, <<120540, 120570>>,
        <<120572, 120596>>, <<120598, 120628>>, <<120630, 120654>>,
        <<120656, 120686>>, <<120688, 120712>>, <<120714, 120744>>,
        <<120746, 120770>>, <<120772, 120779>>, <<120782, 120831>>,
        <<122624, 122654>>, <<123136, 123180>>, <<123191, 123197>>,
        <<123200, 123209>>, <<123214, 123214>>, <<123536, 123565>>,
        <<123584, 123627>>, <<123632, 123641>>, <<124896, 124902>>,
        <<124904, 124907>>, <<124909, 124910>>, <<124912, 124926>>,
        <<124928, 125124>>, <<125127, 125135>>, <<125184, 125251>>,
        <<125259, 125259>>, <<125264, 125273>>, <<126065, 126123>>,
        <<126125, 126127>>, <<126129, 126132>>, <<126209, 126253>>,
        <<126255, 126269>>, <<126464, 126467>>, <<126469, 126495>>,
        <<126497, 126498>>, <<126500, 126500>>, <<126503, 126503>>,
        <<126505, 126514>>, <<126516, 126519>>, <<126521, 126521>>,
        <<126523, 126523>>, <<126530, 126530>>, <<126535, 126535>>,
        <<126537, 126537>>, <<126539, 126539>>, <<126541, 126543>>,
        <<126545, 126546>>, <<126548, 126548>>, <<126551, 126551>>,
        <<126553, 126553>>, <<126555, 126555>>, <<126557, 126557>>,
        <<126559, 126559>>, <<126561, 126562>>, <<126564, 126564>>,
        <<126567, 126570>>, <<126572, 126578>>, <<126580, 126583>>,
        <<126585, 126588>>, <<126590, 126590>>, <<126592, 126601>>,
        <<126603, 126619>>, <<126625, 126627>>, <<126629, 126633>>,
        <<126635, 126651>>, <<127232, 127244>>, <<130032, 130041>>,
        <<131072, 173791>>, <<173824, 177976>>, <<177984, 178205>>,
        <<178208, 183969>>, <<183984, 191456>>, <<194560, 195101>>,
        <<196608, 201546>>
     >>,
     cased |-> <<
        <<65, 90>>, <<97, 122>>, <<170, 170>>, <<181, 181>>, <<186, 186>>,
        <<192, 214>>, <<216, 246>>, <<248, 442>>, <<444, 447>>, <<452, 659>>,
        <<661, 696>>, <<704, 705>>, <<736, 740>>, <<837, 837>>, <<880, 883>>,
        <<886, 887>>, <<890, 893>>, <<895, 895>>, <<902, 902>>, <<904, 906>>,
        <<908, 908>>, <<910, 929>>, <<931, 1013>>, <<1015, 1153>>,
        <<1162, 1327>>, <<1329, 1366>>, <<1376, 1416>>, <<4256, 4293>>,
        <<4295, 4295>>, <<4301, 4301>>, <<4304, 4346>>, <<4349, 4351>>,
        <<5024, 5109>>, <<5112, 5117>>, <<7296, 7304>>, <<7312, 7354>>,
        <<7357, 7359>>, <<7424, 7615>>, <<7680, 7957>>, <<7960, 7965>>,
        <<7968, 8005>>, <<8008, 8013>>, <<8016, 8023>>, <<8025, 8025>>,
        <<8027, 8027>>, <<8029, 8029>>, <<8031, 8061>>, <<8064, 8116>>,
        <<8118, 8124>>, <<8126, 8126>>, <<8130, 8132>>, <<8134, 8140>>,
        <<8144, 8147>>, <<8150, 8155>>, <<8160, 8172>>, <<8178, 8180>>,
        <<8182, 8188>>, <<8305, 8305>>, <<8319, 8319>>, <<8336, 8348>>,
        <<8450, 8450>>, <<8455, 8455>>, <<8458, 8467>>, <<8469, 8469>>,
        <<8473, 8477>>, <<8484, 8484>>, <<8486, 8486>>, <<8488, 8488>>,
        <<8490, 8493>>, <<8495, 8500>>, <<8505, 8505>>, <<8508, 8511>>,
        <<8517, 8521>>, <<8526, 8526>>, <<8544, 8575>>, <<8579, 8580>>,
        <<9398, 9449>>, <<11264, 11492>>, <<11499, 11502>>, <<11506, 11507>>,
        <<11520, 11557>>, <<11559, 11559>>, <<11565, 11565>>,
        <<42560, 42605>>, <<42624, 42653>>, <<42786, 42887>>,
        <<42891, 42894>>, <<42896, 42954>>, <<42960, 42961>>,
        <<42963, 42963>>, <<42965, 42969>>, <<42997, 42998>>,
        <<43000, 43002>>, <<43824, 43866>>, <<43868, 43880>>,
        <<43888, 43967>>, <<64256, 64262>>, <<64275, 64279>>,
        <<65313, 65338>>, <<65345, 65370>>, <<66560, 66639>>,
        <<66736, 66771>>, <<66776, 66811>>, <<66928, 66938>>,
        <<66940, 66954>>, <<66956, 66962>>, <<66964, 66965>>,
        <<66967, 66977>>, <<66979, 66993>>, <<66995, 67001>>,
        <<67003, 67004>>, <<67456, 67456>>, <<67459, 67461>>,
        <<67463, 67504>>, <<67506, 67514>>, <<68736, 68786>>,
        <<68800, 68850>>, <<71840, 71903>>, <<93760, 93823>>,
        <<119808, 119892>>, <<119894, 119964>>, <<119966, 119967>>,
        <<119970, 119970>>, <<119973, 119974>>, <<119977, 119980>>,
        <<119982, 119993>>, <<119995, 119995>>, <<119997, 120003>>,
        <<120005, 120069>>, <<120071, 120074>>, <<120077, 120084>>,
        <<120086, 120092>>, <<120094, 120121>>, <<120123, 120126>>,
        <<120128, 120132>>, <<120134, 120134>>, <<120138, 120144>>,
        <<120146, 120485>>, <<120488, 120512>>, <<120514, 120538>>,
        <<120540, 120570>>, <<120572, 120596>>, <<120598, 120628>>,
        <<120630, 120654>>, <<120656, 120686>>, <<120688, 120712>>,
        <<120714, 120744>>, <<120746, 120770>>, <<120772, 120779>>,
        <<122624, 122633>>, <<122635, 122654>>, <<125184, 125251>>,
        <<127280, 127305>>, <<127312, 127337>>, <<127344, 127369>>
     >>,
     case_ignorable |-> <<
        <<39, 39>>, <<46, 46>>, <<58, 58>>, <<94, 94>>, <<96, 96>>,
        <<168, 168>>, <<173, 173>>, <<175, 175>>, <<180, 180>>, <<183, 184>>,
        <<688, 879>>, <<884, 885>>, <<890, 890>>, <<900, 901>>, <<903, 903>>,
        <<1155, 1161>>, <<1369, 1369>>, <<1375, 1375>>, <<1425, 1469>>,
        <<1471, 1471>>, <<1473, 1474>>, <<1476, 1477>>, <<1479, 1479>>,
        <<1524, 1524>>, <<1536, 1541>>, <<1552, 1562>>, <<1564, 1564>>,
        <<1600, 1600>>, <<1611, 1631>>, <<1648, 1648>>, <<1750, 1757>>,
        <<1759, 1768>>, <<1770, 1773>>, <<1807, 1807>>, <<1809, 1809>>,
        <<1840, 1866>>, <<1958, 1968>>, <<2027, 2037>>, <<2042, 2042>>,
        <<2045, 2045>>, <<2070, 2093>>, <<2137, 2139>>, <<2184, 2184>>,
        <<2192, 2193>>, <<2200, 2207>>, <<2249, 2306>>, <<2362, 2362>>,
        <<2364, 2364>>, <<2369, 2376>>, <<2381, 2381>>, <<2385, 2391>>,
        <<2402, 2403>>, <<2417, 2417>>, <<2433, 2433>>, <<2492, 2492>>,
        <<2497, 2500>>, <<2509, 2509>>, <<2530, 2531>>, <<2558, 2558>>,
        <<2561, 2562>>, <<2620, 2620>>, <<2625, 2626>>, <<2631, 2632>>,
        <<2635, 2637>>, <<2641, 2641>>, <<2672, 2673>>, <<2677, 2677>>,
        <<2689, 2690>>, <<2748, 2748>>, <<2753, 2757>>, <<2759, 2760>>,
        <<2765, 2765>>, <<2786, 2787>>, <<2810, 2815>>, <<2817, 2817>>,
        <<2876, 2876>>, <<2879, 2879>>, <<2881, 2884>>, <<2893, 2893>>,
        <<2901, 2902>>, <<2914, 2915>>, <<2946, 2946>>, <<3008, 3008>>,
        <<3021, 3021>>, <<3072, 3072>>, <<3076, 3076>>, <<3132, 3132>>,
        <<3134, 3136>>, <<3142, 3144>>, <<3146, 3149>>, <<3157, 3158>>,
        <<3170, 3171>>, <<3201, 3201>>, <<3260, 3260>>, <<3263, 3263>>,
        <<3270, 3270>>, <<3276, 3277>>, <<3298, 3299>>, <<3328, 3329>>,
        <<3387, 3388>>, <<3393, 3396>>, <<3405, 3405>>, <<3426, 3427>>,
        <<3457, 3457>>, <<3530, 3530>>, <<3538, 3540>>, <<3542, 3542>>,
        <<3633, 3633>>, <<3636, 3642>>, <<3654, 3662>>, <<3761, 3761>>,
        <<3764, 3772>>, <<3782, 3782>>, <<3784, 3789>>, <<3864, 3865>>,
        <<3893, 3893>>, <<3895, 3895>>, <<3897, 3897>>, <<3953, 3966>>,
        <<3968, 3972>>, <<3974, 3975>>, <<3981, 3991>>, <<3993, 4028>>,
        <<4038, 4038>>, <<4141, 4144>>, <<4146, 4151>>, <<4153, 4154>>,
        <<4157, 4158>>, <<4184, 4185>>, <<4190, 4192>>, <<4209, 4212>>,
        <<4226, 4226>>, <<4229, 4230>>, <<4237, 4237>>, <<4253, 4253>>,
        <<4348, 4348>>, <<4957, 4959>>, <<5906, 5908>>, <<5938, 5939>>,
        <<5970, 5971>>, <<6002, 6003>>, <<6068, 6069>>, <<6071, 6077>>,
        <<6086, 6086>>, <<6089, 6099>>, <<6103, 6103>>, <<6109, 6109>>,
        <<6155, 6159>>, <<6211, 6211>>, <<6277, 6278>>, <<6313, 6313>>,
        <<6432, 6434>>, <<6439, 6440>>, <<6450, 6450>>, <<6457, 6459>>,
        <<6679, 6680>>, <<6683, 6683>>, <<6742, 6742>>, <<6744, 6750>>,
        <<6752, 6752>>, <<6754, 6754>>, <<6757, 6764>>, <<6771, 6780>>,
        <<6783, 6783>>, <<6823, 6823>>, <<6832, 6862>>, <<6912, 6915>>,
        <<6964, 6964>>, <<6966, 6970>>, <<6972, 6972>>, <<6978, 6978>>,
        <<7019, 7027>>, <<7040, 7041>>, <<7074, 7077>>, <<7080, 7081>>,
        <<7083, 7085>>, <<7142, 7142>>, <<7144, 7145>>, <<7149, 7149>>,
        <<7151, 7153>>, <<7212, 7219>>, <<7222, 7223>>, <<7288, 7293>>,
        <<7376, 7378>>, <<7380, 7392>>, <<7394, 7400>>, <<7405, 7405>>,
        <<7412, 7412>>, <<7416, 7417>>, <<7468, 7530>>, <<7544, 7544>>,
        <<7579, 7679>>, <<8125, 8125>>, <<8127, 8129>>, <<8141, 8143>>,
        <<8157, 8159>>, <<8173, 8175>>, <<8189, 8190>>, <<8203, 8207>>,
        <<8216, 8217>>, <<8228, 8228>>, <<8231, 8231>>, <<8234, 8238>>,
        <<8288, 8292>>, <<8294, 8303>>, <<8305, 8305>>, <<8319, 8319>>,
        <<8336, 8348>>, <<8400, 8432>>, <<11388, 11389>>, <<11503, 11505>>,
        <<11631, 11631>>, <<11647, 11647>>, <<11744, 11775>>,
        <<11823, 11823>>, <<12293, 12293>>, <<12330, 12333>>,
        <<12337, 12341>>, <<12347, 12347>>, <<12441, 12446>>,
        <<12540, 12542>>, <<40981, 40981>>, <<42232, 42237>>,
        <<42508, 42508>>, <<42607, 42610>>, <<42612, 42621>>,
        <<42623, 42623>>, <<42652, 42655>>, <<42736, 42737>>,
        <<42752, 42785>>, <<42864, 42864>>, <<42888, 42890>>,
        <<42994, 42996>>, <<43000, 43001>>, <<43010, 43010>>,
        <<43014, 43014>>, <<43019, 43019>>, <<43045, 43046>>,
        <<43052, 43052>>, <<43204, 43205>>, <<43232, 43249>>,
        <<43263, 43263>>, <<43302, 43309>>, <<43335, 43345>>,
        <<43392, 43394>>, <<43443, 43443>>, <<43446, 43449>>,
        <<43452, 43453>>, <<43471, 43471>>, <<43493, 43494>>,
        <<43561, 43566>>, <<43569, 43570>>, <<43573, 43574>>,
        <<43587, 43587>>, <<43596, 43596>>, <<43632, 43632>>,
        <<43644, 43644>>, <<43696, 43696>>, <<43698, 43700>>,
        <<43703, 43704>>, <<43710, 43711>>, <<43713, 43713>>,
        <<43741, 43741>>, <<43756, 43757>>, <<43763, 43764>>,
        <<43766, 43766>>, <<43867, 43871>>, <<43881, 43883>>,
        <<44005, 44005>>, <<44008, 44008>>, <<44013, 44013>>,
        <<64286, 64286>>, <<64434, 64450>>, <<65024, 65039>>,
        <<65043, 65043>>, <<65056, 65071>>, <<65106, 65106>>,
        <<65109, 65109>>, <<65279, 65279>>, <<65287, 65287>>,
        <<65294, 65294>>, <<65306, 65306>>, <<65342, 65342>>,
        <<65344, 65344>>, <<65392, 65392>>, <<65438, 65439>>,
        <<65507, 65507>>, <<65529, 65531>>, <<66045, 66045>>,
        <<66272, 66272>>, <<66422, 66426>>, <<67456, 67461>>,
        <<67463, 67504>>, <<67506, 67514>>, <<68097, 68099>>,
        <<68101, 68102>>, <<68108, 68111>>, <<68152, 68154>>,
        <<68159, 68159>>, <<68325, 68326>>, <<68900, 68903>>,
        <<69291, 69292>>, <<69446, 69456>>, <<69506, 69509>>,
        <<69633, 69633>>, <<69688, 69702>>, <<69744, 69744>>,
        <<69747, 69748>>, <<69759, 69761>>, <<69811, 69814>>,
        <<69817, 69818>>, <<69821, 69821>>, <<69826, 69826>>,
        <<69837, 69837>>, <<69888, 69890>>, <<69927, 69931>>,
        <<69933, 69940>>, <<70003, 70003>>, <<70016, 70017>>,
        <<70070, 70078>>, <<70089, 70092>>, <<70095, 70095>>,
        <<70191, 70193>>, <<70196, 70196>>, <<70198, 70199>>,
        <<70206, 70206>>, <<70367, 70367>>, <<70371, 70378>>,
        <<70400, 70401>>, <<70459, 70460>>, <<70464, 70464>>,
        <<70502, 70508>>, <<70512, 70516>>, <<70712, 70719>>,
        <<70722, 70724>>, <<70726, 70726>>, <<70750, 70750>>,
        <<70835, 70840>>, <<70842, 70842>>, <<70847, 70848>>,
        <<70850, 70851>>, <<71090, 71093>>, <<71100, 71101>>,
        <<71103, 71104>>, <<71132, 71133>>, <<71219, 71226>>,
        <<71229, 71229>>, <<71231, 71232>>, <<71339, 71339>>,
        <<71341, 71341>>, <<71344, 71349>>, <<71351, 71351>>,
        <<71453, 71455>>, <<71458, 71461>>, <<71463, 71467>>,
        <<71727, 71735>>, <<71737, 71738>>, <<71995, 71996>>,
        <<71998, 71998>>, <<72003, 72003>>, <<72148, 72151>>,
        <<72154, 72155>>, <<72160, 72160>>, <<72193, 72202>>,
        <<72243, 72248>>, <<72251, 72254>>, <<72263, 72263>>,
        <<72273, 72278>>, <<72281, 72283>>, <<72330, 72342>>,
        <<72344, 72345>>, <<72752, 72758>>, <<72760, 72765>>,
        <<72767, 72767>>, <<72850, 72871>>, <<72874, 72880>>,
        <<72882, 72883>>, <<72885, 72886>>, <<73009, 73014>>,
        <<73018, 73018>>, <<73020, 73021>>, <<73023, 73029>>,
        <<73031, 73031>>, <<73104, 73105>>, <<73109, 73109>>,
        <<73111, 73111>>, <<73459, 73460>>, <<78896, 78904>>,
        <<92912, 92916>>, <<92976, 92982>>, <<92992, 92995>>,
        <<94031, 94031>>, <<94095, 94111>>, <<94176, 94177>>,
        <<94179, 94180>>, <<110576, 110579>>, <<110581, 110587>>,
        <<110589, 110590>>, <<113821, 113822>>, <<113824, 113827>>,
        <<118528, 118573>>, <<118576, 118598>>, <<119143, 119145>>,
        <<119155, 119170>>, <<119173, 119179>>, <<119210, 119213>>,
        <<119362, 119364>>, <<121344, 121398>>, <<121403, 121452>>,
        <<121461, 121461>>, <<121476, 121476>>, <<121499, 121503>>,
        <<121505, 121519>>, <<122880, 122886>>, <<122888, 122904>>,
        <<122907, 122913>>, <<122915, 122916>>, <<122918, 122922>>,
        <<123184, 123197>>, <<123566, 123566>>, <<123628, 123631>>,
        <<125136, 125142>>, <<125252, 125259>>, <<127995, 127999>>,
        <<917505, 917505>>, <<917536, 917631>>, <<917760, 917999>>
     >>,
     lowercase |-> <<
        <<65, 90, 1, 32>>, <<192, 214, 1, 32>>, <<216, 222, 1, 32>>,
        <<256, 302, 2, 1>>, <<304, 304, 1, -199>>, <<306, 310, 2, 1>>,
        <<313, 327, 2, 1>>, <<330, 374, 2, 1>>, <<376, 376, 1, -121>>,
        <<377, 381, 2, 1>>, <<385, 385, 1, 210>>, <<386, 388, 2, 1>>,
        <<390, 390, 1, 206>>, <<391, 391, 1, 1>>, <<393, 394, 1, 205>>,
        <<395, 395, 1, 1>>, <<398, 398, 1, 79>>, <<399, 399, 1, 202>>,
        <<400, 400, 1, 203>>, <<401, 401, 1, 1>>, <<403, 403, 1, 205>>,
        <<404, 404, 1, 207>>, <<406, 406, 1, 211>>, <<407, 407, 1, 209>>,
        <<408, 408, 1, 1>>, <<412, 412, 1, 211>>, <<413, 413, 1, 213>>,
        <<415, 415, 1, 214>>, <<416, 420, 2, 1>>, <<422, 422, 1, 218>>,
        <<423, 423, 1, 1>>, <<425, 425, 1, 218>>, <<428, 428, 1, 1>>,
        <<430, 430, 1, 218>>, <<431, 431, 1, 1>>, <<433, 434, 1, 217>>,
        <<435, 437, 2, 1>>, <<439, 439, 1, 219>>, <<440, 440, 1, 1>>,
        <<444, 444, 1, 1>>, <<452, 452, 1, 2>>, <<453, 453, 1, 1>>,
        <<455, 455, 1, 2>>, <<456, 456, 1, 1>>, <<458, 458, 1, 2>>,
        <<459, 475, 2, 1>>, <<478, 494, 2, 1>>, <<497, 497, 1, 2>>,
        <<498, 500, 2, 1>>, <<502, 502, 1, -97>>, <<503, 503, 1, -56>>,
        <<504, 542, 2, 1>>, <<544, 544, 1, -130>>, <<546, 562, 2, 1>>,
        <<570, 570, 1, 10795>>, <<571, 571, 1, 1>>, <<573, 573, 1, -163>>,
        <<574, 574, 1, 10792>>, <<577, 577, 1, 1>>, <<579, 579, 1, -195>>,
        <<580, 580, 1, 69>>, <<581, 581, 1, 71>>, <<582, 590, 2, 1>>,
        <<880, 882, 2, 1>>, <<886, 886, 1, 1>>, <<895, 895, 1, 116>>,
        <<902, 902, 1, 38>>, <<904, 906, 1, 37>>, <<908, 908, 1, 64>>,
        <<910, 911, 1, 63>>, <<913, 929, 1, 32>>, <<931, 939, 1, 32>>,
        <<975, 975, 1, 8>>, <<984, 1006, 2, 1>>, <<1012, 1012, 1, -60>>,
        <<1015, 1015, 1, 1>>, <<1017, 1017, 1, -7>>, <<1018, 1018, 1, 1>>,
        <<1021, 1023, 1, -130>>, <<1024, 1039, 1, 80>>, <<1040, 1071, 1, 32>>,
        <<1120, 1152, 2, 1>>, <<1162, 1214, 2, 1>>, <<1216, 1216, 1, 15>>,
        <<1217, 1229, 2, 1>>, <<1232, 1326, 2, 1>>, <<1329, 1366, 1, 48>>,
        <<4256, 4293, 1, 7264>>, <<4295, 4295, 1, 7264>>,
        <<4301, 4301, 1, 7264>>, <<5024, 5103, 1, 38864>>,
        <<5104, 5109, 1, 8>>, <<7312, 7354, 1, -3008>>,
        <<7357, 7359, 1, -3008>>, <<7680, 7828, 2, 1>>,
        <<7838, 7838, 1, -7615>>, <<7840, 7934, 2, 1>>, <<7944, 7951, 1, -8>>,
        <<7960, 7965, 1, -8>>, <<7976, 7983, 1, -8>>, <<7992, 7999, 1, -8>>,
        <<8008, 8013, 1, -8>>, <<8025, 8031, 2, -8>>, <<8040, 8047, 1, -8>>,
        <<8072, 8079, 1, -8>>, <<8088, 8095, 1, -8>>, <<8104, 8111, 1, -8>>,
        <<8120, 8121, 1, -8>>, <<8122, 8123, 1, -74>>, <<8124, 8124, 1, -9>>,
        <<8136, 8139, 1, -86>>, <<8140, 8140, 1, -9>>, <<8152, 8153, 1, -8>>,
        <<8154, 8155, 1, -100>>, <<8168, 8169, 1, -8>>,
        <<8170, 8171, 1, -112>>, <<8172, 8172, 1, -7>>,
        <<8184, 8185, 1, -128>>, <<8186, 8187, 1, -126>>,
        <<8188, 8188, 1, -9>>, <<8486, 8486, 1, -7517>>,
        <<8490, 8490, 1, -8383>>, <<8491, 8491, 1, -8262>>,
        <<8498, 8498, 1, 28>>, <<8544, 8559, 1, 16>>, <<8579, 8579, 1, 1>>,
        <<9398, 9423, 1, 26>>, <<11264, 11311, 1, 48>>,
        <<11360, 11360, 1, 1>>, <<11362, 11362, 1, -10743>>,
        <<11363, 11363, 1, -3814>>, <<11364, 11364, 1, -10727>>,
        <<11367, 11371, 2, 1>>, <<11373, 11373, 1, -10780>>,
        <<11374, 11374, 1, -10749>>, <<11375, 11375, 1, -10783>>,
        <<11376, 11376, 1, -10782>>, <<11378, 11378, 1, 1>>,
        <<11381, 11381, 1, 1>>, <<11390, 11391, 1, -10815>>,
        <<11392, 11490, 2, 1>>, <<11499, 11501, 2, 1>>,
        <<11506, 11506, 1, 1>>, <<42560, 42604, 2, 1>>,
        <<42624, 42650, 2, 1>>, <<42786, 42798, 2, 1>>,
        <<42802, 42862, 2, 1>>, <<42873, 42875, 2, 1>>,
        <<42877, 42877, 1, -35332>>, <<42878, 42886, 2, 1>>,
        <<42891, 42891, 1, 1>>, <<42893, 42893, 1, -42280>>,
        <<42896, 42898, 2, 1>>, <<42902, 42920, 2, 1>>,
        <<42922, 42922, 1, -42308>>, <<42923, 42923, 1, -42319>>,
        <<42924, 42924, 1, -42315>>, <<42925, 42925, 1, -42305>>,
        <<42926, 42926, 1, -42308>>, <<42928, 42928, 1, -42258>>,
        <<42929, 42929, 1, -42282>>, <<42930, 42930, 1, -42261>>,
        <<42931, 42931, 1, 928>>, <<42932, 42946, 2, 1>>,
        <<42948, 42948, 1, -48>>, <<42949, 42949, 1, -42307>>,
        <<42950, 42950, 1, -35384>>, <<42951, 42953, 2, 1>>,
        <<42960, 42960, 1, 1>>, <<42966, 42968, 2, 1>>,
        <<42997, 42997, 1, 1>>, <<65313, 65338, 1, 32>>,
        <<66560, 66599, 1, 40>>, <<66736, 66771, 1, 40>>,
        <<66928, 66938, 1, 39>>, <<66940, 66954, 1, 39>>,
        <<66956, 66962, 1, 39>>, <<66964, 66965, 1, 39>>,
        <<68736, 68786, 1, 64>>, <<71840, 71871, 1, 32>>,
        <<93760, 93791, 1, 32>>, <<125184, 125217, 1, 34>>
     >>]

\* Whether c lies in one of the ranges, found by bisection: lo .. hi are the
\* ranges that may hold c.
InRanges(c, ranges) ==
    LET RECURSIVE Find(_, _)
        Find(lo, hi) ==
            IF lo > hi THEN FALSE
            ELSE LET mid == (lo + hi) \div 2
                 IN  IF c < ranges[mid][1] THEN Find(lo, mid - 1)
                     ELSE IF c > ranges[mid][2] THEN Find(mid + 1, hi)
                     ELSE TRUE
    IN  Find(1, Len(ranges))

\* The single lower-case character of c (the lower() of the re module), c
\* itself when it has none.  The first run, A to Z, is looked at first, the
\* others by bisection: lo .. hi are the runs that may hold c.
unicode_tolower(c) ==
    LET LowerIn(runs) ==
            LET RECURSIVE Find(_, _)
                Find(lo, hi) ==
                    IF lo > hi THEN c
                    ELSE LET mid == (lo + hi) \div 2
                         IN  IF c < runs[mid][1] THEN Find(lo, mid - 1)
                             ELSE IF c > runs[mid][2] THEN Find(mid + 1, hi)
                             ELSE IF (c - runs[mid][1]) % runs[mid][3] = 0
                                  THEN c + runs[mid][4]
                             ELSE c
            IN  IF c < runs[2][1] THEN Find(1, 1) ELSE Find(2, Len(runs))
    IN  LowerIn(UnicodeData.lowercase)

\* Whether the capital sigma at index i of text ends a word: before it, any
\* case-ignorable characters skipped, comes a cased character, and after it,
\* any case-ignorable characters skipped, comes none.
final_sigma(text, i) ==
    LET Ignorable(c) == InRanges(c, UnicodeData.case_ignorable)
        Cased(c) == InRanges(c, UnicodeData.cased)
        RECURSIVE Before(_)
        Before(j) == IF j >= 1 /\ Ignorable(text[j]) THEN Before(j - 1) ELSE j
        RECURSIVE After(_)
        After(j) == IF j <= Len(text) /\ Ignorable(text[j]) THEN After(j + 1) ELSE j
        Final(b, a) == /\ b >= 1 /\ Cased(text[b])
                       /\ (a > Len(text) \/ ~Cased(text[a]))
    IN  Final(Before(i - 1), After(i + 1))

\* str.lower(): the lower case of each character.  U+0130 gives two
\* characters (i and the combining dot above U+0307), the capital sigma
\* U+03A3 the final sigma U+03C2 at the end of a word and U+03C3 elsewhere.
lower(text) ==
    LET RECURSIVE From(_)
        From(i) ==
            IF i > Len(text) THEN <<>>
            ELSE (IF text[i] = 304 THEN <<105, 775>>
                  ELSE IF text[i] = 931
                       THEN <<IF final_sigma(text, i) THEN 962 ELSE 963>>
                  ELSE <<unicode_tolower(text[i])>>) \o From(i + 1)
    IN  From(1)

\* The regular expression class \w: the characters str.isalnum() holds for,
\* and the underscore.
IsWordChar(c) ==
    InRanges(c, UnicodeData.alnum) \/ c = ord["_"]

\* Whether the character c of the text matches the character p of a pattern
\* under re.IGNORECASE: the lower case of c is p, or a character the re
\* module takes for the same letter (U+0131, the dotless i, for i and
\* U+017F, the long s, for s).
MatchesIgnoreCase(p, c) ==
    LET also == IF p = ord["i"] THEN {305}
                ELSE IF p = ord["s"] THEN {383}
                ELSE {}
    IN  c = p \/ unicode_tolower(c) \in {p} \cup also

\* The last index of the run of characters matching c that includes index i.
RECURSIVE RepeatEnd(_, _, _)
RepeatEnd(text, i, c) ==
    IF i < Len(text) /\ MatchesIgnoreCase(c, text[i + 1])
    THEN RepeatEnd(text, i + 1, c) ELSE i

\* Variant: the patterns are not anchored at word boundaries.
MatchEnd_unanchored(pattern, text, i) ==
    LET n == Len(pattern.lit)
        last == i + n - 1
    IN  IF /\ last <= Len(text)
           /\ \A k \in 1 .. n : MatchesIgnoreCase(pattern.lit[k], text[i + k - 1])
        THEN IF pattern.plus THEN RepeatEnd(text, last, pattern.lit[n]) ELSE last
        ELSE 0

\* Where the match of pattern that starts at index i of text ends; 0 when the
\* pattern does not match there.  \b holds between a word character and a
\* character that is none, or an end of the text.  A greedy + takes the whole
\* run: a shorter repetition is followed by a word character, where \b fails.
MatchEnd(pattern, text, i) ==
    LET n == Len(pattern.lit)
        last == i + n - 1
    IN  IF /\ last <= Len(text)
           /\ \A k \in 1 .. n : MatchesIgnoreCase(pattern.lit[k], text[i + k - 1])
           /\ (i = 1 \/ ~IsWordChar(text[i - 1]))
        THEN LET Bounded(e) ==
                     IF e = Len(text) \/ ~IsWordChar(text[e + 1]) THEN e ELSE 0
             IN  Bounded(IF pattern.plus
                         THEN RepeatEnd(text, last, pattern.lit[n])
                         ELSE last)
        ELSE 0

\* re.findall(pattern, text) from index i on: the spans <<k, start, end>> of
\* the non-overlapping matches of pattern number k, left to right.
RECURSIVE FindAllFrom(_, _, _)
FindAllFrom(k, text, i) ==
    IF i > Len(text) THEN <<>>
    ELSE LET e == MatchEnd(filler_patterns[k], text, i)
         IN  IF e > 0 THEN << <<k, i, e>> >> \o FindAllFrom(k, text, e + 1)
             ELSE FindAllFrom(k, text, i + 1)

\* The loop over filler_patterns: the matches of patterns k, k+1, ... in turn.
RECURSIVE ExtendFrom(_, _)
ExtendFrom(k, text) ==
    IF k > Len(filler_patterns) THEN <<>>
    ELSE FindAllFrom(k, text, 1) \o ExtendFrom(k + 1, text)

\* The text the patterns are matched on: lower-cased, stripped, whitespace
\* runs collapsed.
FillerText(text) ==
    SubWhitespaceFrom(strip(lower(text)), 1)

\* The spans of the detected fillers, in the order of detected_fillers.
FillerSpans(text) ==
    IF text = <<>> \/ strip(text) = <<>> THEN <<>>
    ELSE ExtendFrom(1, FillerText(text))

\* The detected fillers of a list of spans.
Occurrences(text, spans) ==
    LET normalized_text == FillerText(text)
        found == spans
    IN  [n \in 1 .. Len(found) |->
            SubSeq(normalized_text, found[n][2], found[n][3])]

\* Variant: one pass over the text, the occurrences in text order.
RECURSIVE ScanInTextOrder(_, _)
ScanInTextOrder(text, i) ==
    IF i > Len(text) THEN <<>>
    ELSE LET hits == {k \in 1 .. Len(filler_patterns) :
                         MatchEnd(filler_patterns[k], text, i) > 0}
         IN  IF hits = {} THEN ScanInTextOrder(text, i + 1)
             ELSE LET k == CHOOSE h \in hits : \A g \in hits : h <= g
                      e == MatchEnd(filler_patterns[k], text, i)
                  IN  << <<k, i, e>> >> \o ScanInTextOrder(text, e + 1)

filler_count_text_order(text) ==
    IF text = <<>> \/ strip(text) = <<>> THEN <<0, <<>>>>
    ELSE LET detected_fillers ==
                 Occurrences(text, ScanInTextOrder(FillerText(text), 1))
         IN  <<Len(detected_fillers), detected_fillers>>

filler_count(text) ==
    IF text = <<>> \/ strip(text) = <<>> THEN <<0, <<>>>>
    ELSE LET detected_fillers == Occurrences(text, FillerSpans(text))
         IN  <<Len(detected_fillers), detected_fillers>>

\* Variant: a word count of zero is treated as not computable.
words_per_minute_zero_words_absent(word_count, duration_sec) ==
    IF Leq(duration_sec, Float(0)) THEN None
    ELSE IF word_count <= 0 THEN None
    ELSE Round(Mul(Div(Float(word_count), duration_sec), Float(60)), 2)

words_per_minute(word_count, duration_sec) ==
    IF Leq(duration_sec, Float(0)) THEN None
    ELSE IF word_count < 0 THEN None
    ELSE LET rate == TrueDiv(Float(word_count), duration_sec)
         IN  IF rate = ZeroDivisionError THEN rate
             ELSE LET wpm == Mul(rate, Float(60))
                  IN  Round(wpm, 2)

(***************************************************************************)
(* Bounds of the argument sets.                                            *)
(***************************************************************************)
MaxCount == 13
MaxSmallWords == 10
MaxWordBlocks == 4
PenDen == 3
MaxWerN == 22
MaxWpmN == 100
MaxScale == 3
ExplDen == 3

\* Error and filler counts, negative ones included.
Counts == -2 .. MaxCount

\* Word counts: non-positive ones, small ones, and multiples of 25 (where the
\* per-100-words rate meets the thresholds exactly).
WordCounts == (-1 .. MaxSmallWords) \cup {25 * b : b \in 1 .. MaxWordBlocks}

\* Penalties handed to calculate_final_score: the multiples of 1/PenDen from
\* below 0 to 1, and 2.
Penalties == {Rat(n, PenDen) : n \in -1 .. PenDen} \cup {Float(2)}

\* The arguments of the docstring example "Some errors".
SomeErrorsExample == <<Rat(1, 4), Rat(1, 4), Float(0), Float(0)>>

\* Calls of calculate_final_score with penalties off the grid: the documented
\* ones with 0.5 and 0.25, and (0.75, 0.625, 0, 0), whose score of 58.125 needs
\* rounding half way between two values of two decimals.
ScoreExamples ==
    {SomeErrorsExample,
     <<Rat(1, 2), Float(0), Float(0), Float(0)>>,
     <<Rat(1, 2), Rat(1, 2), Rat(1, 2), Rat(1, 2)>>,
     <<Rat(3, 4), Rat(5, 8), Float(0), Float(0)>>}

\* Penalties handed to calculate_final_score: the grid and the examples.
ScoreArguments ==
    (Penalties \X Penalties \X Penalties \X Penalties) \cup ScoreExamples

\* WER values in steps of 0.05 from -0.10, and None.
WerValues == {Rat(n, 20) : n \in -2 .. MaxWerN} \cup {None}

\* WPM values in steps of 2.5 from -10, and None.
WpmValues == {Rat(5 * n, 2) : n \in -4 .. MaxWpmN} \cup {None}

MaxSpokenWords == 12
MaxHalfSeconds == 14
MaxTextLen == 5

\* Word counts and durations handed to words_per_minute: counts from -1, and 50
\* words in 30 seconds; durations in steps of half a second from -1, and 19.2
\* seconds (5 words in 19.2 seconds are 15.625 a minute).
SpokenWordCounts == (-1 .. MaxSpokenWords) \cup {50}
Durations == {Rat(n, 2) : n \in -2 .. MaxHalfSeconds} \cup {Float(30), Rat(96, 5)}

\* Transcript characters: a lower-case and an upper-case letter, two kinds of
\* whitespace (the space and the no-break space U+00A0), a punctuation mark of
\* the class [.,!?;:] and one outside it.
TextAlphabet == {ord["a"], ord["B"], ord[" "], 160, ord["."], ord["-"]}

RECURSIVE TextsOfLen(_)
TextsOfLen(n) ==
    IF n = 0 THEN {<<>>}
    ELSE {Append(t, c) : t \in TextsOfLen(n - 1), c \in TextAlphabet}

\* "  Hello   world  .  "
HelloWorldText ==
    Str(<<" ", " ", "H", "e", "l", "l", "o", " ", " ", " ",
      "w", "o", "r", "l", "d", " ", " ", ".", " ", " ">>)

Texts == UNION {TextsOfLen(n) : n \in 0 .. MaxTextLen} \cup {HelloWorldText}

MaxSpokenPhrase == 3

\* How many requests may wait for their upload at a time.
MaxSuspended == 1

\* Words of spoken transcripts: parts of filler phrases, single-word fillers,
\* capitalised and lengthened fillers, words that start like a filler, a
\* filler with a digit after it, and words with letters outside ASCII: "um"
\* after an e with acute accent (U+00E9), "so" written with the long s
\* (U+017F) and "Kind" written with the Kelvin sign (U+212A).
FillerVocabulary ==
    {Str(<<"y", "o", "u">>), Str(<<"k", "n", "o", "w">>), Str(<<"s", "e", "e">>),
     Str(<<"m", "e">>), Str(<<"U", "m", "m">>), Str(<<"W", "e", "l", "l">>),
     Str(<<"l", "i", "k", "e">>), Str(<<"s", "o">>), Str(<<"s", "o", "r", "t">>),
     Str(<<"o", "f">>), Str(<<"u", "m", "2">>),
     <<233>> \o Str(<<"u", "m">>), <<383>> \o Str(<<"o">>),
     <<8490>> \o Str(<<"i", "n", "d">>)}

\* What separates two words: a space, or a comma and two spaces.
Separators == {Str(<<" ">>), Str(<<",", " ", " ">>)}

RECURSIVE PhrasesOfLen(_)
PhrasesOfLen(n) ==
    IF n = 1 THEN FillerVocabulary
    ELSE {p \o sep \o w : p \in PhrasesOfLen(n - 1), sep \in Separators,
                          w \in FillerVocabulary}

\* "Um, I think, you know, it's like really good."
FillerExampleText ==
    Str(<<"U", "m", ",", " ", "I", " ", "t", "h", "i", "n", "k", ",",
      " ", "y", "o", "u", " ", "k", "n", "o", "w", ",", " ", "i",
      "t", "'", "s", " ", "l", "i", "k", "e", " ", "r", "e", "a",
      "l", "l", "y", " ", "g", "o", "o", "d", ".">>)

\* The phrases, no text, a blank, the documented sentence, "I mean" written
\* with the dotted capital I (U+0130) and with the dotless i (U+0131), and a
\* capital sigma (U+03A3) at the end of a word before "um".
SpokenTexts ==
    UNION {PhrasesOfLen(n) : n \in 1 .. MaxSpokenPhrase}
        \cup {<<>>, Str(<<" ">>), FillerExampleText,
              <<304>> \o Str(<<" ", "m", "e", "a", "n">>),
              <<305>> \o Str(<<" ", "m", "e", "a", "n">>),
              Str(<<"a">>) \o <<931>> \o Str(<<" ", "u", "m">>)}

\* Penalties handed to generate_score_explanation: 0, 1/ExplDen, the
\* documented 0.1 and 0.2, and a small negative one.
ExplanationPenalties ==
    {Float(0), Rat(1, ExplDen), Rat(1, 10), Rat(1, 5), Rat(-1, 1000)}

\* "Some errors, mostly in grammar": penalties (0.2, 0.1, 0.0, 0.1), score 85.0.
DocumentedExplanationCall == <<Rat(1, 5), Rat(1, 10), Float(0), Rat(1, 10), Float(85)>>

(***************************************************************************)
(* The /score request (app/main.py, app/asr.py).                           *)
(*                                                                         *)
(* score_audio is a coroutine on the event loop, which runs one request   *)
(* at a time until it awaits.  pc is the step the running request is at,   *)
(* locals its local variables, calls the calls it has made to the          *)
(* transcription engine and the feature extractors, response what it       *)
(* answers, tmp_file its temporary audio file on disk.  suspended holds    *)
(* the requests that wait at "await audio.read()" while the loop runs      *)
(* another.  whisper_model and language_tool are the two module level      *)
(* caches, which outlive a request.  served remembers one request that was *)
(* answered before, loads the speech models loaded so far in the process.  *)
(* The clock (generated_at) is left out.                                   *)
(***************************************************************************)

\* "um um ... um": 21 fillers, one more than a response lists.
ManyFillers ==
    [i \in 1 .. 62 |->
        IF i % 3 = 1 THEN ord["u"] ELSE IF i % 3 = 2 THEN ord["m"] ELSE ord[" "]]

\* What the speech engine hears: nothing, one blank, the 21 fillers, and
\* "so" with the long s (U+017F), a space and a no-break space, and "um" after
\* an e with acute accent (U+00E9).
Transcriptions ==
    {<<>>, Str(<<" ">>), ManyFillers,
     <<383>> \o Str(<<"o", " ">>) \o <<160, 233>> \o Str(<<"u", "m">>)}

\* 0.0 and 2.675 seconds.
AudioDurations == {Float(0), Rat(2675, 1000)}

\* The reference_transcript form field: absent or empty, blank, "hi".
References == {<<>>, Str(<<" ">>), Str(<<"h", "i">>)}

\* Findings LanguageTool reports for a text: none, two, and two more than a
\* response lists.
MatchCounts == {0, 2, 22}

\* What the grammar tool does for a text: it cannot be loaded, its check
\* raises, or it reports findings.
CheckOutcomes ==
    {<<"load_error">>, <<"raise">>} \cup {<<"matches", n>> : n \in MatchCounts}

\* What jiwer does: it cannot be imported, wer raises, or wer returns a word
\* error rate: 0.01875, 1.00002 or 1.00005.
JiwerOutcomes ==
    {<<"ImportError">>, <<"raise">>, <<"return", Rat(3, 160)>>,
     <<"return", Rat(100002, 100000)>>, <<"return", Rat(100005, 100000)>>}

\* The suffix of the uploaded file's name, lower-cased.
FileExtensions == {".wav", ".txt", ""}

allowed_extensions == {".wav", ".mp3", ".m4a", ".flac", ".ogg", ".webm"}

\* How transcribe can fail: the file is not there, it is empty, the model
\* cannot be loaded, the engine fails on the audio.
TranscribeFailures == {"missing_file", "empty_file", "load", "engine"}

\* A call the request made: what it returned, or the exception it raised.
Call(name, arguments, result) == [fn |-> name, args |-> arguments, result |-> result, raised |-> "None"]

http_exception(status_code) == [status_code |-> status_code]

\* The exception transcribe raises: FileNotFoundError or ValueError before
\* its try block, RuntimeError from it.
transcribe_error(failure) ==
    IF failure = "missing_file" THEN "FileNotFoundError"
    ELSE IF failure = "empty_file" THEN "ValueError"
    ELSE "RuntimeError"

ModelTypes == {"faster-whisper", "whisper"}

\* The model_size a caller of transcribe may ask for.
ModelSizes == {"tiny", "base", "small", "medium", "large"}

\* len(transcript.split())
SplitLen(text) ==
    Cardinality({i \in 1 .. Len(text) :
                    /\ ~IsSpace(text[i])
                    /\ (i = 1 \/ IsSpace(text[i - 1]))})

\* transcribe, given what the engine produced for the audio.
transcribe(transcript, duration_sec, detected_language) ==
    IF transcript = <<>>
    THEN [transcript |-> <<>>, word_count |-> 0,
          duration_sec |-> duration_sec, language |-> detected_language]
    ELSE [transcript |-> transcript, word_count |-> SplitLen(transcript),
          duration_sec |-> Round(duration_sec, 2), language |-> detected_language]

\* _load_whisper_model: the cached model type, or the one loaded now.
load_whisper_model(cached, available) ==
    IF cached # "None" THEN cached ELSE available

\* Variant: a model of another size than the cached one is loaded anew.
model_loads_per_size(cached, model_size, available) ==
    IF cached # "None" /\ loads[Len(loads)].model_size = model_size THEN loads
    ELSE Append(loads, [model_size |-> model_size, model_type |-> available])

\* The models loaded so far, after _load_whisper_model.
model_loads(cached, model_size, available) ==
    IF cached # "None" THEN loads
    ELSE Append(loads, [model_size |-> model_size, model_type |-> available])

\* get_model_info
get_model_info(cached) ==
    IF cached = "None" THEN [status |-> "not_loaded", model_type |-> "None"]
    ELSE [status |-> "loaded", model_type |-> cached]

\* Variant: the tool is asked even when there is no text.
grammar_errors_unguarded(text, outcome) ==
    IF outcome[1] # "matches" THEN <<0, <<>>>>
    ELSE <<outcome[2], [i \in 1 .. outcome[2] |-> i]>>

\* grammar_errors, given what the tool does: the count and the findings
\* (numbered); an exception from the tool is caught and gives no findings.
grammar_errors(text, outcome) ==
    IF text = <<>> \/ strip(text) = <<>> THEN <<0, <<>>>>
    ELSE IF outcome[1] # "matches" THEN <<0, <<>>>>
    ELSE <<outcome[2], [i \in 1 .. outcome[2] |-> i]>>

\* _get_language_tool, as grammar_errors reaches it.
get_language_tool(cached, text, outcome) ==
    IF text = <<>> \/ strip(text) = <<>> THEN cached
    ELSE IF outcome[1] = "load_error" THEN cached
    ELSE "LanguageTool"

\* The calls grammar_errors makes to the tool.
tool_calls(text, outcome) ==
    IF text = <<>> \/ strip(text) = <<>> THEN <<>>
    ELSE IF outcome[1] = "load_error"
         THEN <<Call("LanguageTool", <<"en-US">>, outcome)>>
         ELSE <<Call("tool.check", <<text>>, outcome)>>

\* Variant: a failed WER computation counts as everything wrong.
wer_value_of_failure_counts(outcome) ==
    IF outcome[1] = "return" THEN outcome[2] ELSE Float(1)

\* wer_value after the try block around jiwer.
wer_value_of(outcome) ==
    IF outcome[1] = "return" THEN outcome[2] ELSE None

\* The call the try block makes.
jiwer_call(arguments, outcome) ==
    IF outcome[1] = "ImportError" THEN Call("import_jiwer", <<>>, outcome)
    ELSE Call("calculate_wer", arguments, outcome)

\* The finally block: Path(tmp_audio_path).unlink() if the path is set and
\* the file exists; an exception from unlink is swallowed and the file stays.
unlink_tmp(tmp_audio_path, file, unlink_raises) ==
    IF tmp_audio_path # "None" /\ file = "exists" /\ ~unlink_raises
    THEN "removed" ELSE file

\* Variant: the last n entries.
Prefix_tail(seq, n) ==
    IF Len(seq) <= n THEN seq ELSE SubSeq(seq, Len(seq) - n + 1, Len(seq))

\* seq[:n]
Prefix(seq, n) == IF Len(seq) <= n THEN seq ELSE SubSeq(seq, 1, n)

\* The locals of score_audio before any is assigned.
NoLocals ==
    [file_ext |-> "", reference_transcript |-> <<>>, tmp_audio_path |-> "None",
     transcript_text |-> <<>>, word_count |-> 0,
     duration_sec |-> Float(0), language |-> "",
     normalized_text |-> <<>>,
     grammar_error_count |-> 0, grammar_error_details |-> <<>>,
     filler_word_count |-> 0, filler_word_list |-> <<>>,
     wpm |-> None, wer_value |-> None,
     grammar_penalty |-> Float(0), filler_penalty |-> Float(0),
     wer_penalty |-> Float(0), fluency_pen |-> Float(0),
     final |-> Float(0), explanation |-> <<>>]

NoResponse == [status_code |-> 0]

\* The arguments score_audio hands to the extractors.
grammar_errors_args(l) == <<l.normalized_text, "en-US">>

\* Variant: fillers are looked for in the raw transcription.
filler_count_args_raw(l) == <<l.transcript_text>>

filler_count_args(l) == <<l.normalized_text>>

calculate_wer_args(l) == <<l.reference_transcript, l.normalized_text>>

\* Whether the request asks for a WER.
HasReference(l) ==
    l.reference_transcript # <<>> /\ strip(l.reference_transcript) # <<>>

\* Variant: until the grammar tool is loaded the WER is not counted.
score_penalties_cold_start(l) ==
    [grammar_penalty |-> normalize_grammar_errors(l.grammar_error_count, l.word_count),
     filler_penalty |-> normalize_fillers(l.filler_word_count, l.word_count),
     wer_penalty |-> IF language_tool = "None" THEN Float(0)
                     ELSE normalize_wer(l.wer_value),
     fluency_pen |-> fluency_penalty(l.wpm)]

\* "Normalize penalties"
score_penalties(l) ==
    [grammar_penalty |-> normalize_grammar_errors(l.grammar_error_count, l.word_count),
     filler_penalty |-> normalize_fillers(l.filler_word_count, l.word_count),
     wer_penalty |-> normalize_wer(l.wer_value),
     fluency_pen |-> fluency_penalty(l.wpm)]

asr_obj(l) ==
    [transcript |-> l.transcript_text, word_count |-> l.word_count,
     duration_sec |-> l.duration_sec, language |-> l.language]

metrics_obj(l) ==
    [grammar_errors |-> l.grammar_error_count,
     fillers |-> l.filler_word_count,
     wer |-> IF l.wer_value # None THEN Round(l.wer_value, 4) ELSE None,
     wpm |-> l.wpm,
     normalized |-> [grammar |-> Round(l.grammar_penalty, 4),
                     fillers |-> Round(l.filler_penalty, 4),
                     wer |-> Round(l.wer_penalty, 4),
                     fluency |-> Round(l.fluency_pen, 4)],
     final_score |-> l.final]

\* Variant: the wer field has no upper limit.
SchemaAccepts_wer_unlimited(asr, metrics) ==
    /\ asr.word_count >= 0
    /\ Leq(Float(0), asr.duration_sec)
    /\ metrics.grammar_errors >= 0
    /\ metrics.fillers >= 0
    /\ metrics.wer # None => Leq(Float(0), metrics.wer)
    /\ metrics.wpm # None => Leq(Float(0), metrics.wpm)
    /\ Leq(Float(0), metrics.final_score)
    /\ Leq(metrics.final_score, Float(100))

\* The constraints of the ScoreBreakdown and ASRResult schemas.
SchemaAccepts(asr, metrics) ==
    /\ asr.word_count >= 0
    /\ Leq(Float(0), asr.duration_sec)
    /\ metrics.grammar_errors >= 0
    /\ metrics.fillers >= 0
    /\ metrics.wer # None => (Leq(Float(0), metrics.wer) /\ Leq(metrics.wer, Float(1)))
    /\ metrics.wpm # None => Leq(Float(0), metrics.wpm)
    /\ Leq(Float(0), metrics.final_score)
    /\ Leq(metrics.final_score, Float(100))

\* What score_audio answers once every local is computed.
score_response(l, model_type) ==
    LET Built(asr, metrics) ==
            IF SchemaAccepts(asr, metrics)
            THEN [status_code |-> 200,
                  asr |-> asr,
                  metrics |-> metrics,
                  grammar_details |-> Prefix(l.grammar_error_details, 20),
                  filler_words |-> Prefix(l.filler_word_list, 20),
                  explanation |-> l.explanation,
                  model_version |-> <<model_type, "-small">>]
            ELSE [status_code |-> 500]
    IN  Built(asr_obj(l), metrics_obj(l))

\* What a finished request took in and what it computed from it.
RequestInputs(l) ==
    [transcript |-> l.transcript_text, word_count |-> l.word_count,
     duration_sec |-> l.duration_sec,
     grammar_error_count |-> l.grammar_error_count, wer |-> l.wer_value]

\* The requests of which one is remembered: nothing was said and a WER was
\* computed.  The grammar tool is not asked about such a request, so it may be
\* loaded for one and not for the next.
Remembered(l) == l.transcript_text = <<>> /\ l.wer_value # None

RequestOutputs(l) ==
    [grammar_penalty |-> l.grammar_penalty, filler_penalty |-> l.filler_penalty,
     wer_penalty |-> l.wer_penalty, fluency_pen |-> l.fluency_pen,
     final |-> l.final, explanation |-> l.explanation]

(***************************************************************************)
(* The calls.                                                              *)
(***************************************************************************)
Init ==
    /\ fn = "none"
    /\ args = <<>>
    /\ ret = None
    /\ pc = "idle"
    /\ locals = NoLocals
    /\ calls = <<>>
    /\ response = NoResponse
    /\ whisper_model = "None"
    /\ language_tool = "None"
    /\ served = {}
    /\ tmp_file = "none"
    /\ loads = <<>>
    /\ suspended = <<>>

CallNormalizeGrammarErrors ==
    /\ fn = "none"
    /\ \E e \in Counts, w \in WordCounts :
       /\ fn' = "normalize_grammar_errors"
       /\ args' = <<e, w>>
       /\ ret' = normalize_grammar_errors(e, w)
    /\ UNCHANGED pipevars

CallNormalizeFillers ==
    /\ fn = "none"
    /\ \E f \in Counts, w \in WordCounts :
       /\ fn' = "normalize_fillers"
       /\ args' = <<f, w>>
       /\ ret' = normalize_fillers(f, w)
    /\ UNCHANGED pipevars

CallNormalizeWer ==
    /\ fn = "none"
    /\ \E wer \in WerValues :
       /\ fn' = "normalize_wer"
       /\ args' = <<wer>>
       /\ ret' = normalize_wer(wer)
    /\ UNCHANGED pipevars

CallFluencyPenalty ==
    /\ fn = "none"
    /\ \E wpm \in WpmValues :
       /\ fn' = "fluency_penalty"
       /\ args' = <<wpm>>
       /\ ret' = fluency_penalty(wpm)
    /\ UNCHANGED pipevars

CallCalculateFinalScore ==
    /\ fn = "none"
    /\ \E a \in ScoreArguments :
       /\ fn' = "calculate_final_score"
       /\ args' = a
       /\ ret' = calculate_final_score(a[1], a[2], a[3], a[4])
    /\ UNCHANGED pipevars

CallWordsPerMinute ==
    /\ fn = "none"
    /\ \E words \in SpokenWordCounts, duration \in Durations :
       /\ fn' = "words_per_minute"
       /\ args' = <<words, duration>>
       /\ ret' = words_per_minute(words, duration)
    /\ UNCHANGED pipevars

CallNormalizeTranscript ==
    /\ fn = "none"
    /\ \E text \in Texts :
       /\ fn' = "normalize_transcript"
       /\ args' = <<text>>
       /\ ret' = normalize_transcript(text)
    /\ UNCHANGED pipevars

CallFillerCount ==
    /\ fn = "none"
    /\ \E text \in SpokenTexts :
       /\ fn' = "filler_count"
       /\ args' = <<text>>
       /\ ret' = filler_count(text)
    /\ UNCHANGED pipevars

\* The final score is the one calculate_final_score gives for the penalties,
\* or the 85.0 of the documented example.
CallGenerateScoreExplanation ==
    /\ fn = "none"
    /\ \E a \in {<<g, f, w, fl, calculate_final_score(g, f, w, fl)>> :
                      g \in ExplanationPenalties, f \in ExplanationPenalties,
                      w \in ExplanationPenalties, fl \in ExplanationPenalties}
                  \cup {DocumentedExplanationCall} :
          /\ fn' = "generate_score_explanation"
          /\ args' = a
          /\ ret' = generate_score_explanation(a[1], a[2], a[3], a[4], a[5])
    /\ UNCHANGED pipevars

\* The caller takes the result; the frame is gone.
Return ==
    /\ fn # "none"
    /\ fn' = "none"
    /\ args' = <<>>
    /\ ret' = None
    /\ UNCHANGED pipevars

Next ==
    \/ CallNormalizeGrammarErrors
    \/ CallNormalizeFillers
    \/ CallNormalizeWer
    \/ CallFluencyPenalty
    \/ CallCalculateFinalScore
    \/ CallWordsPerMinute
    \/ CallNormalizeTranscript
    \/ CallFillerCount
    \/ CallGenerateScoreExplanation
    \/ Return

Spec == Init /\ [][Next]_vars

(***************************************************************************)
(* The steps of a /score request.                                          *)
(***************************************************************************)
\* A request with an allowed file extension arrives.
Receive ==
    /\ pc = "idle"
    /\ \E file_ext \in FileExtensions, reference \in References :
       /\ file_ext \in allowed_extensions
       /\ locals' = [NoLocals EXCEPT !.file_ext = file_ext,
                                     !.reference_transcript = reference]
    /\ pc' = "save_upload"
    /\ UNCHANGED <<calls, response, whisper_model, language_tool, served, tmp_file, loads, suspended>>
    /\ UNCHANGED <<fn, args, ret>>

\* A request with another extension is refused before anything is done.
RejectFormat ==
    /\ pc = "idle"
    /\ \E file_ext \in FileExtensions, reference \in References :
       /\ file_ext \notin allowed_extensions
       /\ locals' = [NoLocals EXCEPT !.file_ext = file_ext,
                                     !.reference_transcript = reference]
    /\ response' = http_exception(400)
    /\ pc' = "responded"
    /\ UNCHANGED <<calls, whisper_model, language_tool, served, tmp_file, loads, suspended>>
    /\ UNCHANGED <<fn, args, ret>>

\* tempfile.NamedTemporaryFile creates the temporary file.
CreateTempFile ==
    /\ pc = "save_upload"
    /\ tmp_file' = "exists"
    /\ pc' = "read_upload"
    /\ UNCHANGED <<locals, calls, response, whisper_model, language_tool, served, loads, suspended>>
    /\ UNCHANGED <<fn, args, ret>>

\* The temporary file cannot be created: nothing is on disk.
CreateTempFileFails ==
    /\ pc = "save_upload"
    /\ response' = http_exception(500)
    /\ pc' = "finally"
    /\ UNCHANGED <<locals, calls, whisper_model, language_tool, served, tmp_file, loads, suspended>>
    /\ UNCHANGED <<fn, args, ret>>

\* "await audio.read()" does not complete at once: the request waits, its
\* file on disk, and the event loop is free for another request.
Suspend ==
    /\ pc = "read_upload"
    /\ Len(suspended) < MaxSuspended
    /\ suspended' = Append(suspended, [locals |-> locals, tmp_file |-> tmp_file])
    /\ pc' = "idle"
    /\ locals' = NoLocals
    /\ tmp_file' = "none"
    /\ UNCHANGED <<calls, response, whisper_model, language_tool, served, loads>>
    /\ UNCHANGED <<fn, args, ret>>

\* The event loop, free again, goes on with a waiting request.
Resume ==
    /\ pc = "idle"
    /\ \E i \in DOMAIN suspended :
       /\ locals' = suspended[i].locals
       /\ tmp_file' = suspended[i].tmp_file
       /\ suspended' = SubSeq(suspended, 1, i - 1)
                           \o SubSeq(suspended, i + 1, Len(suspended))
    /\ pc' = "upload_read"
    /\ UNCHANGED <<calls, response, whisper_model, language_tool, served, loads>>
    /\ UNCHANGED <<fn, args, ret>>

\* The upload is read, at once or after a wait, and written to the temporary
\* file, whose name is kept.
SaveUpload ==
    /\ pc \in {"read_upload", "upload_read"}
    /\ locals' = [locals EXCEPT !.tmp_audio_path = "tmp_file.name"]
    /\ pc' = "transcribe"
    /\ UNCHANGED <<calls, response, whisper_model, language_tool, served, tmp_file, loads, suspended>>
    /\ UNCHANGED <<fn, args, ret>>

\* Saving the upload raises, and the temporary file is there.  Reading the
\* upload or writing it raises before tmp_audio_path is assigned; closing the
\* file at the end of the with block (which writes out what write buffered)
\* raises after it is assigned.
SaveUploadFails ==
    /\ pc \in {"read_upload", "upload_read"}
    /\ \E raised_at \in {"read", "write", "close"} :
          locals' = [locals EXCEPT !.tmp_audio_path =
                        IF raised_at = "close" THEN "tmp_file.name" ELSE "None"]
    /\ response' = http_exception(500)
    /\ pc' = "finally"
    /\ UNCHANGED <<calls, whisper_model, language_tool, served, tmp_file, loads, suspended>>
    /\ UNCHANGED <<fn, args, ret>>

\* The task of a request that waited for its upload is cancelled:
\* asyncio.CancelledError is raised at the await.  It is no Exception, so no
\* except clause of score_audio takes it: the finally block runs and
\* score_audio ends with it, an exception that has no status code, and no
\* HTTP response is made.
Cancelled ==
    /\ pc = "upload_read"
    /\ response' = [status_code |-> 0, raised |-> "CancelledError"]
    /\ pc' = "finally"
    /\ UNCHANGED <<locals, calls, whisper_model, language_tool, served, tmp_file, loads, suspended>>
    /\ UNCHANGED <<fn, args, ret>>

\* The audio is transcribed (model_size "small"); the speech model is loaded
\* if it is not cached.
Transcribe ==
    /\ pc = "transcribe"
    /\ \E text \in Transcriptions, duration \in AudioDurations, available \in ModelTypes :
       \E asr_result \in {transcribe(text, duration, "en")} :
           /\ whisper_model' = load_whisper_model(whisper_model, available)
           /\ loads' = model_loads(whisper_model, "small", available)
           /\ locals' = [locals EXCEPT
                            !.transcript_text = asr_result.transcript,
                            !.word_count = asr_result.word_count,
                            !.duration_sec = asr_result.duration_sec,
                            !.language = asr_result.language]
           /\ calls' = <<Call("transcribe", <<"small">>, asr_result.transcript)>>
    /\ pc' = "normalize"
    /\ UNCHANGED <<language_tool, response, served, tmp_file, suspended>>
    /\ UNCHANGED <<fn, args, ret>>

\* transcribe raises: the file is gone (something else removed it) or empty,
\* the model cannot be loaded, or the engine fails on the audio (after the
\* model was loaded).
TranscribeFails ==
    /\ pc = "transcribe"
    /\ \E failure \in TranscribeFailures, available \in ModelTypes :
       /\ whisper_model' = IF failure = "engine"
                           THEN load_whisper_model(whisper_model, available)
                           ELSE whisper_model
       /\ loads' = IF failure = "engine"
                   THEN model_loads(whisper_model, "small", available)
                   ELSE loads
       /\ calls' = <<[Call("transcribe", <<"small">>, <<>>)
                          EXCEPT !.raised = transcribe_error(failure)]>>
       /\ tmp_file' = IF failure = "missing_file" THEN "missing" ELSE tmp_file
    /\ response' = http_exception(500)
    /\ pc' = "finally"
    /\ UNCHANGED <<locals, language_tool, served, suspended>>
    /\ UNCHANGED <<fn, args, ret>>

NormalizeTranscript ==
    /\ pc = "normalize"
    /\ \E normalized_text \in {normalize_transcript(locals.transcript_text)} :
           /\ locals' = [locals EXCEPT !.normalized_text = normalized_text]
           /\ calls' = Append(calls, Call("normalize_transcript",
                                          <<locals.transcript_text>>, normalized_text))
    /\ pc' = "grammar_errors"
    /\ UNCHANGED <<whisper_model, language_tool, response, served, tmp_file, loads, suspended>>
    /\ UNCHANGED <<fn, args, ret>>

\* grammar_errors: the tool reports findings, or loading or running it
\* raises, which grammar_errors catches.
GrammarErrors ==
    /\ pc = "grammar_errors"
    /\ \E outcome \in CheckOutcomes, arguments \in {grammar_errors_args(locals)} :
       \E result \in {grammar_errors(arguments[1], outcome)} :
           /\ outcome[1] = "load_error" => language_tool = "None"
           /\ locals' = [locals EXCEPT !.grammar_error_count = result[1],
                                       !.grammar_error_details = result[2]]
           /\ language_tool' = get_language_tool(language_tool, arguments[1], outcome)
           /\ calls' = calls \o tool_calls(arguments[1], outcome)
                             \o <<Call("grammar_errors", arguments, result)>>
    /\ pc' = "filler_count"
    /\ UNCHANGED <<whisper_model, response, served, tmp_file, loads, suspended>>
    /\ UNCHANGED <<fn, args, ret>>

FillerCount ==
    /\ pc = "filler_count"
    /\ \E arguments \in {filler_count_args(locals)} :
       \E result \in {filler_count(arguments[1])} :
           /\ locals' = [locals EXCEPT !.filler_word_count = result[1],
                                       !.filler_word_list = result[2]]
           /\ calls' = Append(calls, Call("filler_count", arguments, result))
    /\ pc' = "words_per_minute"
    /\ UNCHANGED <<whisper_model, language_tool, response, served, tmp_file, loads, suspended>>
    /\ UNCHANGED <<fn, args, ret>>

WordsPerMinute ==
    /\ pc = "words_per_minute"
    /\ locals' = [locals EXCEPT
                     !.wpm = words_per_minute(locals.word_count, locals.duration_sec)]
    /\ pc' = "wer"
    /\ UNCHANGED <<calls, whisper_model, language_tool, response, served, tmp_file, loads, suspended>>
    /\ UNCHANGED <<fn, args, ret>>

\* No usable reference: the WER stays absent.
WerSkipped ==
    /\ pc = "wer"
    /\ ~HasReference(locals)
    /\ locals' = [locals EXCEPT !.wer_value = None]
    /\ pc' = "score"
    /\ UNCHANGED <<calls, whisper_model, language_tool, response, served, tmp_file, loads, suspended>>
    /\ UNCHANGED <<fn, args, ret>>

\* A reference is given: jiwer is imported and computes the WER, or the
\* import or the computation raises.
WerComputed ==
    /\ pc = "wer"
    /\ HasReference(locals)
    /\ \E outcome \in JiwerOutcomes :
       /\ locals' = [locals EXCEPT !.wer_value = wer_value_of(outcome)]
       /\ calls' = Append(calls, jiwer_call(calculate_wer_args(locals), outcome))
    /\ pc' = "score"
    /\ UNCHANGED <<whisper_model, language_tool, response, served, tmp_file, loads, suspended>>
    /\ UNCHANGED <<fn, args, ret>>

\* Penalties, final score and explanation.
Score ==
    /\ pc = "score"
    /\ \E p \in {score_penalties(locals)} :
       \E final \in {calculate_final_score(p.grammar_penalty, p.filler_penalty,
                                           p.wer_penalty, p.fluency_pen)} :
           locals' = [locals EXCEPT
                         !.grammar_penalty = p.grammar_penalty,
                         !.filler_penalty = p.filler_penalty,
                         !.wer_penalty = p.wer_penalty,
                         !.fluency_pen = p.fluency_pen,
                         !.final = final,
                         !.explanation =
                             generate_score_explanation(
                                 p.grammar_penalty, p.filler_penalty,
                                 p.wer_penalty, p.fluency_pen, final)]
    /\ pc' = "respond"
    /\ UNCHANGED <<calls, whisper_model, language_tool, response, served, tmp_file, loads, suspended>>
    /\ UNCHANGED <<fn, args, ret>>

\* The response objects are built: a score, or HTTP 500 when a schema
\* rejects a value.
Respond ==
    /\ pc = "respond"
    /\ response' = score_response(locals, whisper_model)
    /\ pc' = "finally"
    /\ UNCHANGED <<locals, calls, whisper_model, language_tool, served, tmp_file, loads, suspended>>
    /\ UNCHANGED <<fn, args, ret>>

\* The finally block: the temporary file is removed if its path is known,
\* unless removing it fails.
Cleanup ==
    /\ pc = "finally"
    /\ \E unlink_raises \in BOOLEAN :
       tmp_file' = unlink_tmp(locals.tmp_audio_path, tmp_file, unlink_raises)
    /\ pc' = "responded"
    /\ UNCHANGED <<locals, calls, response, whisper_model, language_tool, served, loads, suspended>>
    /\ UNCHANGED <<fn, args, ret>>

\* The request is over and its frame is gone; a scored request of the kind
\* that is remembered may be the one remembered.  The next request gets a
\* temporary file of its own.
Finish ==
    /\ pc = "responded"
    /\ \/ served' = served
       \/ /\ response.status_code = 200
          /\ Remembered(locals)
          /\ served' = {[inputs |-> RequestInputs(locals),
                         outputs |-> RequestOutputs(locals)]}
    /\ pc' = "idle"
    /\ locals' = NoLocals
    /\ calls' = <<>>
    /\ response' = NoResponse
    /\ tmp_file' = "none"
    /\ UNCHANGED <<whisper_model, language_tool, loads, suspended>>
    /\ UNCHANGED <<fn, args, ret>>

NextScore ==
    \/ Receive
    \/ RejectFormat
    \/ CreateTempFile
    \/ CreateTempFileFails
    \/ Suspend
    \/ Resume
    \/ SaveUpload
    \/ SaveUploadFails
    \/ Cancelled
    \/ Transcribe
    \/ TranscribeFails
    \/ NormalizeTranscript
    \/ GrammarErrors
    \/ FillerCount
    \/ WordsPerMinute
    \/ WerSkipped
    \/ WerComputed
    \/ Score
    \/ Respond
    \/ Cleanup
    \/ Finish

SpecScore == Init /\ [][NextScore]_vars

(***************************************************************************)
(* The speech model cache (app/asr.py): transcribe and get_model_info      *)
(* called directly, with any model size.  ret tells what transcribe        *)
(* raised or returned, and which model it ran.                             *)
(***************************************************************************)
CallTranscribe ==
    /\ fn = "none"
    /\ \E model_size \in ModelSizes, text \in Transcriptions,
          duration \in AudioDurations, available \in ModelTypes :
       /\ whisper_model' = load_whisper_model(whisper_model, available)
       /\ loads' = model_loads(whisper_model, model_size, available)
       /\ fn' = "transcribe"
       /\ args' = <<model_size>>
       /\ ret' = [raised |-> "None",
                  model |-> loads'[Len(loads')],
                  model_type |-> whisper_model',
                  result |-> transcribe(text, duration, "en")]
    /\ UNCHANGED <<pc, locals, calls, response, language_tool, served, tmp_file, suspended>>

\* transcribe raises; when the engine fails the model has been loaded.
CallTranscribeFails ==
    /\ fn = "none"
    /\ \E model_size \in ModelSizes, failure \in TranscribeFailures,
          available \in ModelTypes :
       /\ whisper_model' = IF failure = "engine"
                           THEN load_whisper_model(whisper_model, available)
                           ELSE whisper_model
       /\ loads' = IF failure = "engine"
                   THEN model_loads(whisper_model, model_size, available)
                   ELSE loads
       /\ fn' = "transcribe"
       /\ args' = <<model_size>>
       /\ ret' = [raised |-> transcribe_error(failure)]
    /\ UNCHANGED <<pc, locals, calls, response, language_tool, served, tmp_file, suspended>>

CallGetModelInfo ==
    /\ fn = "none"
    /\ fn' = "get_model_info"
    /\ args' = <<>>
    /\ ret' = get_model_info(whisper_model)
    /\ UNCHANGED pipevars

NextAsr ==
    \/ CallTranscribe
    \/ CallTranscribeFails
    \/ CallGetModelInfo
    \/ Return

SpecAsr == Init /\ [][NextAsr]_vars


(***************************************************************************)
(* Properties of the scoring functions.                                    *)
(***************************************************************************)
InUnit(x) == Leq(Float(0), x) /\ Leq(x, Float(1))

\* max(0, min(1, x)) written out by cases.
ClampUnit(x) ==
    IF Lt(x, Float(0)) THEN Float(0) ELSE IF Lt(Float(1), x) THEN Float(1) ELSE x

\* 0.35*g + 0.25*f + 0.20*w + 0.20*fl with the documented weights as literals.
DocumentedSum(g, f, w, fl) ==
    Add(Add(Add(Mul(Rat(35, 100), g), Mul(Rat(25, 100), f)),
            Mul(Rat(20, 100), w)),
        Mul(Rat(20, 100), fl))

PenaltyFunctions ==
    {"normalize_grammar_errors", "normalize_fillers", "normalize_wer", "fluency_penalty"}

\* C1: for any four penalty inputs, values below 0 and above 1 included,
\* calculate_final_score returns a value in [0, 100].
C1_ScoreBounded ==
    fn = "calculate_final_score" =>
        Leq(Float(0), ret) /\ Leq(ret, Float(100))

\* C1 witness: the out-of-range call of the test suite, all four penalties 2.0.
C1_Witness ==
    /\ fn = "calculate_final_score"
    /\ args = <<Float(2), Float(2), Float(2), Float(2)>>
    /\ ret = Float(0)

\* C2: for penalties in [0, 1] the score is
\* 100 - 100*(0.35*g + 0.25*f + 0.20*w + 0.20*fl) rounded to 2 decimals;
\* (0,0,0,0) gives 100.0, (1,1,1,1) gives 0.0 and (0.5,0,0,0) gives 82.5.
C2_ScoreFormula ==
    (/\ fn = "calculate_final_score"
     /\ \A i \in 1 .. 4 : InUnit(args[i]))
    => /\ ret = Round(Sub(Float(100),
                          Mul(Float(100),
                              DocumentedSum(args[1], args[2], args[3], args[4]))), 2)
       /\ args = <<Float(0), Float(0), Float(0), Float(0)>> => ret = Float(100)
       /\ args = <<Float(1), Float(1), Float(1), Float(1)>> => ret = Float(0)
       /\ args = <<Rat(1, 2), Float(0), Float(0), Float(0)>> => ret = Rat(165, 2)

\* C2 witness: a call with in-range penalties whose exact score needs rounding:
\* (1/3, 0, 0, 0) gives 88.33.
C2_Witness ==
    /\ fn = "calculate_final_score"
    /\ args = <<Rat(1, 3), Float(0), Float(0), Float(0)>>
    /\ ret = Rat(8833, 100)

\* C3 as stated: the result equals the result on the same inputs with each one
\* first clamped to [0, 1].
C3_InputsClampedFirst ==
    fn = "calculate_final_score" =>
        ret = calculate_final_score(clamp_01(args[1]), clamp_01(args[2]),
                                    clamp_01(args[3]), clamp_01(args[4]))

\* C3 amended: calculate_final_score does not clamp its inputs; it weights them
\* as given and clamps only the resulting score to [0, 100] before rounding.  A
\* grammar penalty of 2.0 with the other three at 0 scores 30.0, a grammar
\* penalty of 1.0 scores 65.0.
C3_OnlyScoreClamped ==
    fn = "calculate_final_score" =>
        LET raw == Sub(Float(100),
                       Mul(Float(100),
                           DocumentedSum(args[1], args[2], args[3], args[4])))
            bounded == IF Lt(raw, Float(0)) THEN Float(0)
                       ELSE IF Lt(Float(100), raw) THEN Float(100) ELSE raw
        IN  /\ ret = Round(bounded, 2)
            /\ args = <<Float(2), Float(0), Float(0), Float(0)>> => ret = Float(30)
            /\ args = <<Float(1), Float(0), Float(0), Float(0)>> => ret = Float(65)

\* C3 witness: grammar penalty 2.0, the others 0, scored 30.0 (not 65.0).
C3_Witness ==
    /\ fn = "calculate_final_score"
    /\ args = <<Float(2), Float(0), Float(0), Float(0)>>
    /\ ret = Float(30)

\* C4: each of the four penalty functions returns a value in [0.0, 1.0] for
\* every input: negative counts, non-positive word counts, absent WER or WPM
\* and arbitrarily large values included.
C4_PenaltyInUnit ==
    fn \in PenaltyFunctions => InUnit(ret)

\* C4 witness: a negative error count over a positive word count, whose
\* unclamped penalty is negative.
C4_Witness ==
    /\ fn = "normalize_grammar_errors"
    /\ args[1] < 0
    /\ args[2] > 0
    /\ ret = Float(0)

\* C5: the grammar and filler penalties are clamp01((count/word_count*100)/T),
\* T = 12 for grammar errors and T = 8 for fillers: 0.0 whenever
\* word_count <= 0, 0.0 for a count of 0, and 1.0 whenever the rate per 100
\* words is at or above T.
C5_RatePenalty ==
    fn \in {"normalize_grammar_errors", "normalize_fillers"} =>
        LET count == args[1]
            words == args[2]
            T == IF fn = "normalize_grammar_errors" THEN 12 ELSE 8
        IN  /\ words <= 0 => ret = Float(0)
            /\ words > 0 =>
                   ret = ClampUnit(Div(Mul(Div(Float(count), Float(words)), Float(100)),
                                       Float(T)))
            /\ count = 0 => ret = Float(0)
            /\ (words > 0 /\ count * 100 >= T * words) => ret = Float(1)

\* C5 witness: 2 fillers in 25 words, a rate of exactly 8 per 100 words.
C5_Witness ==
    /\ fn = "normalize_fillers"
    /\ args = <<2, 25>>
    /\ ret = Float(1)

\* C6: normalize_wer returns clamp01(wer / 0.35) when wer is present and >= 0
\* (so 1.0 for every wer >= 0.35), and 0.0 when wer is absent or negative.
C6_WerPenalty ==
    fn = "normalize_wer" =>
        LET wer == args[1]
        IN  /\ (wer = None \/ Lt(wer, Float(0))) => ret = Float(0)
            /\ (wer # None /\ Leq(Float(0), wer)) =>
                   ret = ClampUnit(Div(wer, Rat(35, 100)))
            /\ (wer # None /\ Leq(Rat(35, 100), wer)) => ret = Float(1)

\* C6 witness: a WER of exactly 0.35 is penalised 1.0.
C6_Witness ==
    /\ fn = "normalize_wer"
    /\ args = <<Rat(35, 100)>>
    /\ ret = Float(1)

\* C7: fluency_penalty is 0 when WPM is absent, <= 0 or within [110, 170];
\* clamp01((110 - wpm)/50) when 0 < wpm < 110; clamp01((wpm - 170)/50) when
\* wpm > 170.
C7_FluencyPiecewise ==
    fn = "fluency_penalty" =>
        LET wpm == args[1]
        IN  IF wpm = None THEN ret = Float(0)
            ELSE /\ Leq(wpm, Float(0)) => ret = Float(0)
                 /\ (Leq(Float(110), wpm) /\ Leq(wpm, Float(170))) => ret = Float(0)
                 /\ (Lt(Float(0), wpm) /\ Lt(wpm, Float(110))) =>
                        ret = ClampUnit(Div(Sub(Float(110), wpm), Float(50)))
                 /\ Lt(Float(170), wpm) =>
                        ret = ClampUnit(Div(Sub(wpm, Float(170)), Float(50)))

\* C7 witness: 90 WPM sits on the slow ramp, penalty 0.4.
C7_Witness ==
    /\ fn = "fluency_penalty"
    /\ args = <<Float(90)>>
    /\ ret = Rat(2, 5)

\* C8 as stated: the penalty is 1.0 for every WPM <= 60 and every WPM >= 220.
C8_MaxPenaltyAtExtremes ==
    (/\ fn = "fluency_penalty"
     /\ args[1] # None
     /\ (Leq(args[1], Float(60)) \/ Leq(Float(220), args[1])))
    => ret = Float(1)

\* C8 amended: the penalty is 1.0 for every WPM with 0 < WPM <= 60 and every
\* WPM >= 220; for WPM <= 0 it is 0.0.
C8_MaxPenaltyAtPositiveExtremes ==
    (fn = "fluency_penalty" /\ args[1] # None) =>
        /\ ((Lt(Float(0), args[1]) /\ Leq(args[1], Float(60)))
              \/ Leq(Float(220), args[1])) => ret = Float(1)
        /\ Leq(args[1], Float(0)) => ret = Float(0)

\* C8 witness: 40 WPM, below the very-slow limit, is penalised 1.0.
C8_Witness ==
    /\ fn = "fluency_penalty"
    /\ args = <<Float(40)>>
    /\ ret = Float(1)

\* C9: the grammar, filler and WER penalties are monotonically non-decreasing:
\* for a fixed word_count > 0 a larger count never yields a smaller penalty,
\* and a larger WER never yields a smaller WER penalty.
C9_Monotone ==
    /\ (fn = "normalize_grammar_errors" /\ args[2] > 0) =>
           \A e \in Counts :
               e >= args[1] => Leq(ret, normalize_grammar_errors(e, args[2]))
    /\ (fn = "normalize_fillers" /\ args[2] > 0) =>
           \A f \in Counts :
               f >= args[1] => Leq(ret, normalize_fillers(f, args[2]))
    /\ (fn = "normalize_wer" /\ args[1] # None) =>
           \A wer \in WerValues \ {None} :
               Leq(args[1], wer) => Leq(ret, normalize_wer(wer))

\* C9 witness: a grammar call for which a larger count of the argument set
\* gives a strictly larger penalty and a still larger one gives the same.
C9_Witness ==
    /\ fn = "normalize_grammar_errors"
    /\ args[2] > 0
    /\ \E e1, e2 \in Counts :
          /\ args[1] < e1 /\ e1 < e2
          /\ Lt(ret, normalize_grammar_errors(e1, args[2]))
          /\ normalize_grammar_errors(e1, args[2]) = normalize_grammar_errors(e2, args[2])

\* C10: rate invariance: for every count e, word count w > 0 and positive
\* integer k, normalize_grammar_errors(e, w) = normalize_grammar_errors(k*e, k*w)
\* and normalize_fillers(e, w) = normalize_fillers(k*e, k*w).
C10_RateInvariance ==
    /\ (fn = "normalize_grammar_errors" /\ args[2] > 0) =>
           \A k \in 1 .. MaxScale :
               normalize_grammar_errors(k * args[1], k * args[2]) = ret
    /\ (fn = "normalize_fillers" /\ args[2] > 0) =>
           \A k \in 1 .. MaxScale :
               normalize_fillers(k * args[1], k * args[2]) = ret

\* C10 witness: 3 errors in 50 words, penalised 0.5 like 6 errors in 100 words.
C10_Witness ==
    /\ fn = "normalize_grammar_errors"
    /\ args = <<3, 50>>
    /\ ret = Rat(1, 2)
    /\ normalize_grammar_errors(6, 100) = Rat(1, 2)

(***************************************************************************)
(* Properties of the weights, the rate calculator and the normalizer.      *)
(***************************************************************************)
\* C11: the four scoring weights are grammar 0.35, fillers 0.25, WER 0.20 and
\* fluency 0.20, and they sum to exactly 1.0: four equal penalties p in [0, 1]
\* are weighted to p itself and score 100 - 100*p.
C11_WeightsSumToOne ==
    /\ WEIGHT_GRAMMAR = Rat(35, 100)
    /\ WEIGHT_FILLERS = Rat(25, 100)
    /\ WEIGHT_WER = Rat(20, 100)
    /\ WEIGHT_FLUENCY = Rat(20, 100)
    /\ Add(Add(Add(WEIGHT_GRAMMAR, WEIGHT_FILLERS), WEIGHT_WER), WEIGHT_FLUENCY)
           = Float(1)
    /\ (/\ fn = "calculate_final_score"
        /\ InUnit(args[1])
        /\ \A i \in 2 .. 4 : args[i] = args[1])
       => ret = Round(Sub(Float(100), Mul(Float(100), args[1])), 2)

\* C11 witness: four penalties of 0.5 score 50.0.
C11_Witness ==
    /\ fn = "calculate_final_score"
    /\ args = <<Rat(1, 2), Rat(1, 2), Rat(1, 2), Rat(1, 2)>>
    /\ ret = Float(50)

\* C12: words_per_minute returns absent when duration_sec <= 0 or
\* word_count < 0, and otherwise (word_count / duration_sec) * 60 rounded to 2
\* decimal places; (50, 30.0) gives 100.0 and (10, 0) gives absent.
C12_WordsPerMinute ==
    fn = "words_per_minute" =>
        LET words == args[1]
            duration == args[2]
        IN  /\ (Leq(duration, Float(0)) \/ words < 0) => ret = None
            /\ (Lt(Float(0), duration) /\ words >= 0) =>
                   /\ ret # None
                   /\ ret = Round(Mul(Div(Float(words), duration), Float(60)), 2)
                   /\ LET diff == Sub(Mul(Div(Float(words), duration), Float(60)), ret)
                      IN  /\ Lt(diff, Rat(501, 100000))
                          /\ Lt(Rat(-501, 100000), diff)
            /\ args = <<50, Float(30)>> => ret = Float(100)
            /\ args = <<10, Float(0)>> => ret = None

\* C12 witness: 5 words in 19.2 seconds, 15.625 words per minute as a real
\* number and 15.63 as rounded by Python.
C12_Witness ==
    /\ fn = "words_per_minute"
    /\ args = <<5, Rat(96, 5)>>
    /\ ret = Rat(1563, 100)

NonSpace(text) == SelectSeq(text, LAMBDA c : ~IsSpace(c))

\* C13: the result of normalize_transcript has no leading or trailing
\* whitespace, no whitespace character other than single spaces between
\* non-whitespace characters, and no whitespace immediately before any of
\* . , ! ? ; : ; empty or all-whitespace input yields the empty string.
C13_NormalizedShape ==
    fn = "normalize_transcript" =>
        /\ \A i \in 1 .. Len(ret) :
              IsSpace(ret[i]) =>
                  /\ ret[i] = ord[" "]
                  /\ 1 < i /\ i < Len(ret)
                  /\ ~IsSpace(ret[i - 1])
                  /\ ~IsSpace(ret[i + 1])
                  /\ ~IsPunct(ret[i + 1])
        /\ NonSpace(args[1]) = <<>> => ret = <<>>
        /\ args[1] = HelloWorldText =>
               ret = Str(<<"H", "e", "l", "l", "o", " ", "w", "o", "r", "l", "d", ".">>)

\* C13 witness: a text with a no-break space before a full stop and leading
\* whitespace, normalized to "a.B".
C13_Witness ==
    /\ fn = "normalize_transcript"
    /\ args = << Str(<<" ", "a">>) \o <<160>> \o Str(<<".", "B">>) >>
    /\ ret = Str(<<"a", ".", "B">>)

\* C14: normalize_transcript changes only whitespace: the non-whitespace
\* characters of the output are those of the input, in the same order, casing
\* and punctuation included.
C14_OnlyWhitespaceChanges ==
    fn = "normalize_transcript" => NonSpace(ret) = NonSpace(args[1])

\* C14 witness: an upper-case letter and punctuation around removed whitespace.
C14_Witness ==
    /\ fn = "normalize_transcript"
    /\ args = << Str(<<"B", " ", ".">>) \o <<160>> \o Str(<<"-">>) >>
    /\ ret = Str(<<"B", ".", " ", "-">>)

(***************************************************************************)
(* Properties of the filler detector.                                      *)
(***************************************************************************)
\* The number of the pattern that matches the whole of an occurrence.
PatternOf(occ) ==
    CHOOSE k \in 1 .. Len(filler_patterns) :
        MatchEnd(filler_patterns[k], occ, 1) = Len(occ)

\* C15: the occurrence list of filler_count is ordered by pattern-list order,
\* not text order: all matches of an earlier pattern precede all matches of a
\* later one, matches of one pattern appear left to right, and the count is the
\* length of the list; "Um, I think, you know, it's like really good." gives
\* count 3 with "you know", "um", "like" in that order.
C15_PatternListOrder ==
    fn = "filler_count" =>
        LET count == ret[1]
            occs == ret[2]
            spans == FillerSpans(args[1])
        IN  /\ count = Len(occs)
            /\ \A i, j \in 1 .. Len(occs) :
                  i < j => PatternOf(occs[i]) <= PatternOf(occs[j])
            /\ Len(spans) = Len(occs)
            /\ \A i \in 1 .. Len(occs) :
                  /\ spans[i][1] = PatternOf(occs[i])
                  /\ occs[i] = SubSeq(FillerText(args[1]), spans[i][2], spans[i][3])
            /\ \A i, j \in 1 .. Len(spans) :
                  (i < j /\ spans[i][1] = spans[j][1]) => spans[i][3] < spans[j][2]
            /\ args[1] = FillerExampleText =>
                  ret = <<3, <<Str(<<"y", "o", "u", " ", "k", "n", "o", "w">>), Str(<<"u", "m">>), Str(<<"l", "i", "k", "e">>)>>>>

\* C15 witness: the documented sentence, where "um" comes first in the text
\* and second in the list.
C15_Witness ==
    /\ fn = "filler_count"
    /\ args = <<FillerExampleText>>
    /\ ret[1] = 3
    /\ ret[2][1] = Str(<<"y", "o", "u", " ", "k", "n", "o", "w">>)
    /\ ret[2][2] = Str(<<"u", "m">>)

\* C16: an occurrence of a multi-word filler phrase is counted as one unit: no
\* word of the text is part of more than one returned occurrence (no
\* single-word pattern matches inside a matched phrase, no two matches overlap).
C16_NoSharedWords ==
    fn = "filler_count" =>
        LET spans == FillerSpans(args[1])
        IN  /\ ret[1] = Len(spans)
            /\ \A i, j \in 1 .. Len(spans) :
                  i < j => (spans[i][3] < spans[j][2] \/ spans[j][3] < spans[i][2])

\* C16 witness: "sort of so": the phrase once, and the single word "so" once,
\* for the third word only.
C16_Witness ==
    /\ fn = "filler_count"
    /\ args = <<Str(<<"s", "o", "r", "t", " ", "o", "f", " ", "s", "o">>)>>
    /\ ret = <<2, <<Str(<<"s", "o", "r", "t", " ", "o", "f">>), Str(<<"s", "o">>)>>>>

(***************************************************************************)
(* Properties of the explanation.                                          *)
(***************************************************************************)
\* The segment of text before the first occurrence of the mark, and the rest
\* after it.
RECURSIVE SplitAt(_, _, _)
SplitAt(text, mark, i) ==
    IF i + Len(mark) - 1 > Len(text) THEN <<text, <<>>>>
    ELSE IF SubSeq(text, i, i + Len(mark) - 1) = mark
         THEN <<SubSeq(text, 1, i - 1), SubSeq(text, i + Len(mark), Len(text))>>
    ELSE SplitAt(text, mark, i + 1)

\* "Score: 85.0/100 | Grammar: -7.0 pts | Fillers: -2.5 pts | WER: -0.0 pts |
\* Fluency: -2.0 pts"
DocumentedExplanation ==
    Str(<<"S", "c", "o", "r", "e", ":", " ", "8", "5", ".", "0", "/",
    "1", "0", "0", " ", "|", " ", "G", "r", "a", "m", "m", "a",
    "r", ":", " ", "-", "7", ".", "0", " ", "p", "t", "s", " ",
    "|", " ", "F", "i", "l", "l", "e", "r", "s", ":", " ", "-",
    "2", ".", "5", " ", "p", "t", "s", " ", "|", " ", "W", "E",
    "R", ":", " ", "-", "0", ".", "0", " ", "p", "t", "s", " ",
    "|", " ", "F", "l", "u", "e", "n", "c", "y", ":", " ", "-",
    "2", ".", "0", " ", "p", "t", "s">>)

\* C19: the explanation reports, for each component, the deduction
\* penalty * weight * 100 rounded to 1 decimal (weights 0.35, 0.25, 0.20, 0.20)
\* together with the final score, in the order Score, Grammar, Fillers, WER,
\* Fluency; penalties (0.2, 0.1, 0.0, 0.1) give 7.0, 2.5, 0.0 and 2.0.
C19_ExplanationFields ==
    fn = "generate_score_explanation" =>
        LET s1 == SplitAt(ret, Str(<<"S", "c", "o", "r", "e", ":", " ">>), 1)
            s2 == SplitAt(s1[2], Str(<<"/", "1", "0", "0", " ", "|", " ", "G", "r", "a", "m", "m", "a", "r", ":", " ", "-">>), 1)
            s3 == SplitAt(s2[2], Str(<<" ", "p", "t", "s", " ", "|", " ", "F", "i", "l", "l", "e", "r", "s", ":", " ", "-">>), 1)
            s4 == SplitAt(s3[2], Str(<<" ", "p", "t", "s", " ", "|", " ", "W", "E", "R", ":", " ", "-">>), 1)
            s5 == SplitAt(s4[2], Str(<<" ", "p", "t", "s", " ", "|", " ", "F", "l", "u", "e", "n", "c", "y", ":", " ", "-">>), 1)
            s6 == SplitAt(s5[2], Str(<<" ", "p", "t", "s">>), 1)
            deduction(penalty, percent) ==
                FloatStr(Round(Mul(Mul(penalty, Rat(percent, 100)), Float(100)), 1))
        IN  /\ s1[1] = <<>>
            /\ s2[1] = FloatStr(args[5])
            /\ s3[1] = deduction(args[1], 35)
            /\ s4[1] = deduction(args[2], 25)
            /\ s5[1] = deduction(args[3], 20)
            /\ s6[1] = deduction(args[4], 20)
            /\ s6[2] = <<>>
            /\ args = <<Rat(1, 5), Rat(1, 10), Float(0), Rat(1, 10), Float(85)>>
                   => ret = DocumentedExplanation

\* C19 witness: the documented call, penalties (0.2, 0.1, 0.0, 0.1) and score
\* 85.0.
C19_Witness ==
    /\ fn = "generate_score_explanation"
    /\ args = <<Rat(1, 5), Rat(1, 10), Float(0), Rat(1, 10), Float(85)>>
    /\ ret = DocumentedExplanation

(***************************************************************************)
(* Totality.                                                               *)
(***************************************************************************)
CoreFunctions ==
    PenaltyFunctions \cup
        {"normalize_transcript", "filler_count", "words_per_minute",
         "calculate_final_score", "generate_score_explanation"}

Extractors == {"grammar_errors", "filler_count", "calculate_wer"}

\* The transcript an extractor was handed.
ExtractorText(call) ==
    IF call.fn = "calculate_wer" THEN call.args[2] ELSE call.args[1]

\* C20: in every request normalize_transcript is called on the raw
\* transcription before any extractor runs; grammar checking, filler
\* detection and the WER computation are each handed its result, and the
\* transcript of the response is the raw transcription as transcribe gave it.
C20_NormalizedBeforeExtraction ==
    /\ \A i \in DOMAIN calls :
          calls[i].fn \in Extractors =>
              /\ i > 2
              /\ calls[1].fn = "transcribe"
              /\ calls[2].fn = "normalize_transcript"
              /\ calls[2].args[1] = calls[1].result
              /\ calls[2].result = normalize_transcript(calls[1].result)
              /\ ExtractorText(calls[i]) = calls[2].result
    /\ (pc = "responded" /\ response.status_code = 200) =>
           response.asr.transcript = calls[1].result

\* C20 witness: the text with the long s is transcribed, a space and a
\* no-break space between its words; all three extractors get it with one
\* space there and the response carries it as transcribed.
C20_Witness ==
    /\ pc = "responded"
    /\ response.status_code = 200
    /\ response.asr.transcript =
           <<383>> \o Str(<<"o", " ">>) \o <<160, 233>> \o Str(<<"u", "m">>)
    /\ \A name \in Extractors :
          \E i \in DOMAIN calls :
              /\ calls[i].fn = name
              /\ ExtractorText(calls[i]) =
                     <<383>> \o Str(<<"o", " ">>) \o <<233>> \o Str(<<"u", "m">>)

(***************************************************************************)
(* Failures of the collaborators.                                          *)
(***************************************************************************)

\* The request got as far as the WER step.
PastExtraction == \E i \in DOMAIN calls : calls[i].fn = "filler_count"

\* jiwer was asked for and did not give a WER.
WerFailed ==
    \E i \in DOMAIN calls :
        /\ calls[i].fn \in {"import_jiwer", "calculate_wer"}
        /\ calls[i].result[1] # "return"

\* C21: when a reference is supplied and the WER computation raises (or jiwer
\* cannot be imported), and likewise when the reference is missing, empty or
\* blank, the WER counts as absent: the WER penalty is 0, the reported wer is
\* absent, and the request is answered with a score.
C21_FailedWerIsAbsent ==
    (pc = "responded" /\ PastExtraction
        /\ (WerFailed \/ ~HasReference(locals))) =>
        /\ locals.wer_penalty = Float(0)
        /\ response.status_code = 200
        /\ response.metrics.wer = None
        /\ response.metrics.normalized.wer = Float(0)

\* C21 witness: jiwer raised for the reference "hi" and a score was returned
\* without a wer.
C21_Witness ==
    /\ pc = "responded"
    /\ HasReference(locals)
    /\ \E i \in DOMAIN calls :
          calls[i].fn = "calculate_wer" /\ calls[i].result = <<"raise">>
    /\ response.status_code = 200
    /\ response.metrics.wer = None
    /\ locals.wer_penalty = Float(0)

\* The result of the request's call of an extractor.
ResultOf(name) ==
    LET i == CHOOSE j \in DOMAIN calls : calls[j].fn = name
    IN  calls[i].result

IsPrefix(short, long) ==
    /\ Len(short) <= Len(long)
    /\ short = SubSeq(long, 1, Len(short))

\* C22: a score response reports the total number of grammar findings and
\* of filler occurrences, and lists at most 20 of each: the first ones the
\* extractor produced, in its order.
C22_ListsAreFirstTwenty ==
    (pc = "responded" /\ response.status_code = 200) =>
        LET found == ResultOf("grammar_errors")
            fillers == ResultOf("filler_count")
        IN  /\ response.metrics.grammar_errors = Len(found[2])
            /\ response.metrics.grammar_errors = found[1]
            /\ response.metrics.fillers = Len(fillers[2])
            /\ response.metrics.fillers = fillers[1]
            /\ Len(response.grammar_details) <= 20
            /\ Len(response.filler_words) <= 20
            /\ IsPrefix(response.grammar_details, found[2])
            /\ IsPrefix(response.filler_words, fillers[2])

\* C22 witness: 22 findings and 21 fillers are counted, 20 of each listed.
C22_Witness ==
    /\ pc = "responded"
    /\ response.status_code = 200
    /\ response.metrics.grammar_errors = 22
    /\ Len(response.grammar_details) = 20
    /\ response.metrics.fillers = 21
    /\ Len(response.filler_words) = 20

\* transcribe raised.
TranscriptionFailed ==
    /\ calls # <<>>
    /\ calls[1].fn = "transcribe"
    /\ calls[1].raised \in {"FileNotFoundError", "ValueError", "RuntimeError"}

\* The grammar tool could not be loaded, or its check raised.
GrammarCheckerCrashed ==
    \E i \in DOMAIN calls :
        /\ calls[i].fn \in {"LanguageTool", "tool.check"}
        /\ calls[i].result[1] \in {"load_error", "raise"}

\* C23: a request during which the transcription engine fails or the grammar
\* checker crashes ends in an HTTP error response, not in a score.
C23_EngineFailureIsHttpError ==
    (pc = "responded" /\ (TranscriptionFailed \/ GrammarCheckerCrashed)) =>
        response.status_code >= 400

(***************************************************************************)
(* The documented examples.                                                *)
(***************************************************************************)

C26_ModelLoadedOnce ==
    /\ Len(loads) <= 1
    /\ (whisper_model = "None") <=> (loads = <<>>)
    /\ loads # <<>> => whisper_model = loads[1].model_type
    /\ (fn = "transcribe" /\ ret.raised = "None") =>
           /\ ret.model = loads[1]
           /\ ret.model_type = loads[1].model_type
    /\ fn = "get_model_info" =>
           ret = IF loads = <<>>
                 THEN [status |-> "not_loaded", model_type |-> "None"]
                 ELSE [status |-> "loaded", model_type |-> loads[1].model_type]

\* C26 witness: transcribe is asked for the large model and runs the cached
\* faster-whisper "tiny" one.
C26_Witness ==
    /\ fn = "transcribe"
    /\ args = <<"large">>
    /\ ret.raised = "None"
    /\ ret.model = [model_size |-> "tiny", model_type |-> "faster-whisper"]
    /\ loads = <<[model_size |-> "tiny", model_type |-> "faster-whisper"]>>

(***************************************************************************)
(* The temporary audio file.                                               *)
(***************************************************************************)

\* C27: for every request that passes the file-extension check, the
\* temporary audio file created for it no longer exists when the request
\* finishes, whether it ends with a score or with an error at any step.
C27_TempFileRemoved ==
    (pc = "responded" /\ locals.file_ext \in allowed_extensions) =>
        tmp_file # "exists"

(***************************************************************************)
(* The WER field of the response.                                          *)
(***************************************************************************)

\* The request has been answered after its WER was computed.
AnsweredWithWer == response.status_code # 0 /\ locals.wer_value # None

\* C28 as stated: every score response carries a wer that is absent or
\* within [0, 1], and a request whose computed WER exceeds 1.0 ends with
\* HTTP 500 instead of a score, its WER penalty being 1.0.
C28_WerAboveOneIsRejected ==
    /\ response.status_code = 200 =>
           \/ response.metrics.wer = None
           \/ InUnit(response.metrics.wer)
    /\ (AnsweredWithWer /\ ~Leq(locals.wer_value, Float(1))) =>
           /\ response.status_code = 500
           /\ locals.wer_penalty = Float(1)

\* C28 amended: every score response carries a wer that is absent or within
\* [0, 1], and a request whose computed WER, rounded to four decimals,
\* exceeds 1.0 ends with HTTP 500 instead of a score, its WER penalty being
\* 1.0.
C28_RoundedWerAboveOneIsRejected ==
    /\ response.status_code = 200 =>
           \/ response.metrics.wer = None
           \/ InUnit(response.metrics.wer)
    /\ (AnsweredWithWer /\ ~Leq(Round(locals.wer_value, 4), Float(1))) =>
           /\ response.status_code = 500
           /\ locals.wer_penalty = Float(1)

\* C28 witness: a request whose WER is 1.00005, 1.0001 when rounded, has
\* ended with HTTP 500, its WER penalty 1.0.
C28_Witness ==
    /\ pc = "responded"
    /\ locals.wer_value = Rat(100005, 100000)
    /\ locals.wer_penalty = Float(1)
    /\ response.status_code = 500

(***************************************************************************)
(* Nothing was said.                                                       *)
(***************************************************************************)

\* The finished request's transcription succeeded, found no word, and no
\* reference was supplied.
EmptyTranscriptNoReference ==
    /\ pc = "responded"
    /\ calls # <<>>
    /\ ~TranscriptionFailed
    /\ locals.word_count = 0
    /\ ~HasReference(locals)

\* C29: when transcription yields an empty transcript (word count 0) and no
\* reference is supplied, the request returns a score with grammar-error
\* count 0, filler count 0, all four normalized penalties 0 and final score
\* 100.0, whatever the audio duration.
C29_EmptyTranscriptScoresHundred ==
    EmptyTranscriptNoReference =>
        /\ response.status_code = 200
        /\ response.metrics.grammar_errors = 0
        /\ response.metrics.fillers = 0
        /\ response.metrics.normalized =
               [grammar |-> Float(0), fillers |-> Float(0),
                wer |-> Float(0), fluency |-> Float(0)]
        /\ response.metrics.final_score = Float(100)

\* C29 witness: a request whose 2.675 s of audio held no speech was answered
\* with score 100, grammar_errors having returned no findings.
C29_Witness ==
    /\ EmptyTranscriptNoReference
    /\ locals.transcript_text = <<>>
    /\ locals.duration_sec = Rat(2675, 1000)
    /\ \E i \in DOMAIN calls :
          /\ calls[i].fn = "grammar_errors"
          /\ calls[i].result = <<0, <<>>>>
    /\ response.status_code = 200
    /\ response.metrics.final_score = Float(100)

====
